---- MODULE Spec2Model ----
(***************************************************************************)
(* Mindful-AI backend: the chat orchestrator (ChatService), the document  *)
(* ingestor (DocumentService), the access-control middleware and the OTP  *)
(* resend of AuthService, as state machines over the relational store,   *)
(* the vector store, the model provider and the identity provider.        *)
(*                                                                         *)
(* Texts are sequences of one-character strings, so that trimming,        *)
(* truncation, concatenation and substring search are computed as the     *)
(* code computes them.                                                     *)
(***************************************************************************)
EXTENDS Integers, Sequences, FiniteSets, TLC

VARIABLES
  chat_sessions,      \* table chat_sessions: id -> [user_id, title, last_message_at]
  chat_messages,      \* table chat_messages: rows in insertion order
  documents,          \* vector table (config.env.vectorDb.tableName): set of chunk rows
  document_metadata,  \* table document_metadata: id -> row
  now,                \* the clock behind new Date()
  sessionSeq,         \* chat_sessions ids handed out so far
  pm,                 \* in-flight ChatService.processMessage calls
  gt,                 \* the ChatService.generateChatTitle call
  docSeq,             \* document_metadata ids handed out so far
  rowSeq,             \* vector table row ids handed out so far
  tmp,                \* the files in os.tmpdir()
  pd,                 \* in-flight DocumentService.processDocument calls
  dd,                 \* in-flight DocumentService.deleteDocument calls
  auth_users,         \* the identity provider's accounts: user id -> account
  users,              \* table users: id -> [role]
  req,                \* the last request to an admin-only endpoint and its answer
  otp,                \* the last AuthService.resendOtp call and its result
  ut,                 \* the ChatService.updateChatTitle call
  ds,                 \* the ChatService.deleteChatSession call
  chat_topics,        \* table chat_topics: the ids handed out and the ids of its rows
  dt,                 \* the last DELETE /chat/admin/topics/:topicId and its answer
  hook,               \* the last GET /whatsapp/webhook and its answer
  events,             \* the webhook event POSTs received, in order
  client,             \* the user whose session the module-level store client holds ('' none)
  al,                 \* the AuthService.adminLogin call
  gh,                 \* the last GET /chat/session/:sessionId/history and its answer
  pr,                 \* the last password-reset request and its result
  aa,                 \* the last request that carries an admin secret and its answer
  rp                  \* the last POST /whatsapp/register-phone-number and its answer

chatVars == <<chat_sessions, chat_messages, now, sessionSeq, pm, gt>>
authVars == <<auth_users, users, req, otp>>
storeVars == <<documents, document_metadata, docSeq, rowSeq, tmp, pd, dd>>
opVars == <<ut, ds, chat_topics, dt, hook, events>>
sessVars == <<client, al>>
replyVars == <<gh, pr, aa, rp>>
vars == <<chat_sessions, chat_messages, documents, document_metadata, now, sessionSeq, pm, gt,
          docSeq, rowSeq, tmp, pd, dd, auth_users, users, req, otp,
          ut, ds, chat_topics, dt, hook, events, client, al, gh, pr, aa, rp>>

(***************************************************************************)
(* Text helpers (JavaScript String operations on sequences of characters) *)
(***************************************************************************)
\* String.prototype.substring(from, to) with 0-based indices, to exclusive.
Substring(s, from, to) ==
  LET lo == IF from > Len(s) THEN Len(s) ELSE from
      hi == IF to > Len(s) THEN Len(s) ELSE to
  IN  SubSeq(s, lo + 1, hi)

IsSpace(ch) == ch \in {" ", "\n", "\t"}

\* String.prototype.trim(): strip the leading and the trailing white space.
RECURSIVE TrimStart(_)
TrimStart(s) ==
  IF s # <<>> /\ IsSpace(Head(s)) THEN TrimStart(Tail(s)) ELSE s

RECURSIVE TrimEnd(_)
TrimEnd(s) ==
  IF s # <<>> /\ IsSpace(s[Len(s)]) THEN TrimEnd(SubSeq(s, 1, Len(s) - 1)) ELSE s

Trim(s) == TrimEnd(TrimStart(s))

\* Array.prototype.join(sep) over an array of texts.
RECURSIVE Join(_, _)
Join(parts, sep) ==
  IF parts = <<>> THEN <<>>
  ELSE IF Len(parts) = 1 THEN parts[1]
  ELSE parts[1] \o sep \o Join(Tail(parts), sep)

(***************************************************************************)
(* Literals of chat.service.ts                                             *)
(***************************************************************************)
NoHistory == <<"N","o"," ","p","r","e","v","i","o","u","s"," ","c","o","n","v","e","r","s","a","t","i","o","n"," ","h","i","s","t","o","r","y",".">>
NoContext == <<"N","o"," ","s","p","e","c","i","f","i","c"," ","i","n","f","o","r","m","a","t","i","o","n"," ","a","v","a","i","l","a","b","l","e"," ","o","n"," ","t","h","i","s"," ","t","o","p","i","c",".">>
UserPrefix == <<"U","s","e","r",":"," ">>
AiPrefix == <<"\n","A","I",":"," ">>
Untitled == <<"U","n","t","i","t","l","e","d">>
Ellipsis == <<".",".",".">>
NewConversation == <<"N","e","w"," ","C","o","n","v","e","r","s","a","t","i","o","n">>
TitlePrefix == <<"\n","T","i","t","l","e",":"," ">>
ContentPrefix == <<"\n","C","o","n","t","e","n","t",":"," ">>
ContextTail == <<"\n"," "," "," "," "," "," ">>
ChatPrefix == <<"C","h","a","t"," ">>
ParagraphBreak == <<"\n","\n">>

\* config.env.chatAi.similaritySearchResults: parseInt(SIMILARITY_SEARCH_RESULTS || '5')
similaritySearchResults == 5
\* the preview length of a source snippet
PreviewLength == 150
\* generateChatTitle: the longest title kept as it is, and the cut of a longer one
TitleMax == 50
TitleCut == 47

(***************************************************************************)
(* Bounds of the model                                                     *)
(***************************************************************************)
MaxSessions == 1     \* chat sessions ever created
MaxMessages == 2     \* chat_messages rows ever inserted
MaxTitleLen == 52    \* length of the longest title body the model returns
ExtraRows == 1       \* chunk rows of the seeded vector store beyond K
MaxDocs == 2         \* document_metadata rows ever inserted
MaxChunks == 1       \* chunks the splitter makes of one document
MaxTopics == 2       \* chat_topics rows ever inserted
MaxEvents == 2       \* webhook event POSTs ever received

CallIds == {1, 2}      \* slots of processMessage calls in flight
SessionIds == {1, 2}   \* session ids a request may name
UserIds == {"u1", "u2"}
Messages == {<<"h","i">>}
Categories == {"", "sleep"}
SearchQueries == {"q1"}
ModelResponses == {<<"o","k">>}

Undefined == [defined |-> FALSE, items |-> <<>>]
Defined(items) == [defined |-> TRUE, items |-> items]

(***************************************************************************)
(* The vector store                                                        *)
(***************************************************************************)
\* A chunk row of the vector table, as DocumentService.processDocument stores it.
ChunkRow(id, documentId, title, category) ==
  [id |-> id, documentId |-> documentId, title |-> title, category |-> category,
   pageContent |-> <<"c">>]

\* The store the chat runs against: n chunks of two ingested documents.
SeedChunks(n) ==
  { ChunkRow(i, 1 + (i % 2),
             IF i % 2 = 0 THEN <<"A">> ELSE <<"B">>,
             IF i % 2 = 0 THEN "sleep" ELSE "general") : i \in 1..n }

SeedMetadata(n) ==
  [d \in { r.documentId : r \in SeedChunks(n) } |->
     [title |-> IF d = 1 THEN <<"A">> ELSE <<"B">>,
      category |-> IF d = 1 THEN "sleep" ELSE "general",
      chunk_count |-> Cardinality({ r \in SeedChunks(n) : r.documentId = d })]]

\* The rows of a set in ascending order of id.
RECURSIVE AscendingById(_)
AscendingById(rows) ==
  IF rows = {} THEN <<>>
  ELSE LET first == CHOOSE r \in rows : \A o \in rows : r.id <= o.id
       IN  <<first>> \o AscendingById(rows \ {first})

\* The store's ranking of the rows for a query (the embedding distance is the
\* store's own: the model ranks the rows in one fixed order).
RankedFor(query, rows) == AscendingById(rows)

\* SupabaseVectorStore.similaritySearch(query, k, filter): the k best matches
\* among the rows that pass the metadata filter ("" is no filter).
similaritySearch(query, k, category) ==
  LET matching == IF category # "" THEN { r \in documents : r.category = category }
                  ELSE documents
      ranked == RankedFor(query, matching)
  IN  SubSeq(ranked, 1, IF Len(ranked) < k THEN Len(ranked) ELSE k)

(***************************************************************************)
(* ChatService.loadChatHistory                                             *)
(***************************************************************************)
\* .order('created_at', { ascending: true }): a stable insertion sort.
RECURSIVE InsertByCreatedAt(_, _)
InsertByCreatedAt(row, sorted) ==
  IF sorted = <<>> THEN <<row>>
  ELSE IF row.created_at < Head(sorted).created_at THEN <<row>> \o sorted
  ELSE <<Head(sorted)>> \o InsertByCreatedAt(row, Tail(sorted))

RECURSIVE OrderByCreatedAt(_)
OrderByCreatedAt(rows) ==
  IF rows = <<>> THEN <<>>
  ELSE InsertByCreatedAt(rows[Len(rows)], OrderByCreatedAt(SubSeq(rows, 1, Len(rows) - 1)))

SessionMessages(sessionId) ==
  OrderByCreatedAt(SelectSeq(chat_messages, LAMBDA m : m.session_id = sessionId))

FormatInteraction(msg) == UserPrefix \o msg.user_message \o AiPrefix \o msg.ai_response

\* loadChatHistory without its test for no rows: the join of no interactions.
loadChatHistoryUnguarded(sessionId, queryError) ==
  IF queryError THEN NoHistory
  ELSE LET data == SessionMessages(sessionId)
       IN  Join([i \in 1..Len(data) |-> FormatInteraction(data[i])], ParagraphBreak)

\* What loadChatHistory returns: the placeholder on a query error or on no rows,
\* else the interactions joined by a blank line.
loadChatHistory(sessionId, queryError) ==
  IF queryError THEN NoHistory
  ELSE LET data == SessionMessages(sessionId)
       IN  IF Len(data) = 0 THEN NoHistory
           ELSE Join([i \in 1..Len(data) |-> FormatInteraction(data[i])], ParagraphBreak)

(***************************************************************************)
(* ChatService.processMessage: context, prompt and sources                 *)
(***************************************************************************)
TitleOrUntitled(doc) == IF doc.title # <<>> THEN doc.title ELSE Untitled

FormatDocument(doc) ==
  TitlePrefix \o TitleOrUntitled(doc) \o ContentPrefix \o doc.pageContent \o ContextTail

\* documents.map(doc => `Title: ... Content: ...`).join('\n\n')
BuildContext(docs) == Join([i \in 1..Len(docs) |-> FormatDocument(docs[i])], ParagraphBreak)

\* The context thunk without its test for an empty context.
PromptContextUnguarded(context) == context

\* context: () => context.length > 0 ? context : "No specific information ..."
PromptContext(context) == IF Len(context) > 0 THEN context ELSE NoContext

SourceOf(doc) ==
  [title |-> TitleOrUntitled(doc),
   content |-> Substring(doc.pageContent, 0, PreviewLength) \o Ellipsis]

\* documents.length > 0 ? documents.map(...) : undefined
BuildSources(docs) == IF Len(docs) > 0 THEN Defined([i \in 1..Len(docs) |-> SourceOf(docs[i])]) ELSE Undefined

NoPrompt == [sent |-> FALSE, history |-> <<>>, question |-> <<>>, context |-> <<>>]
Prompt(history, question, context) ==
  [sent |-> TRUE, history |-> history, question |-> question, context |-> context]

IdleCall ==
  [pc |-> "idle", userId |-> "", sessionId |-> 0, message |-> <<>>, category |-> "",
   rowsAtCall |-> 0, emptyAtLoad |-> FALSE, historyError |-> FALSE, history |-> <<>>,
   queryPrompt |-> NoPrompt, searchQuery |-> "", docs |-> <<>>,
   answerPrompt |-> NoPrompt, response |-> <<>>, inserted |-> FALSE,
   updateError |-> FALSE, failedAt |-> "", result |-> [response |-> <<>>, sources |-> Undefined],
   status |-> 0, msg |-> <<>>, stamp |-> 0]

InFlight == { c \in CallIds : pm[c].pc \notin {"idle", "returned", "thrown"} }

(***************************************************************************)
(* ChatService.createChatSession                                           *)
(***************************************************************************)
\* title || `Chat ${new Date().toLocaleString()}`
SessionTitle(title) == IF title # <<>> THEN title ELSE ChatPrefix \o <<"d">>

createChatSession(userId, title, insertError) ==
  /\ sessionSeq < MaxSessions
  /\ IF insertError
       THEN UNCHANGED <<chat_sessions, sessionSeq, now>>
       ELSE /\ chat_sessions' =
                 [id \in DOMAIN chat_sessions \cup {sessionSeq + 1} |->
                    IF id = sessionSeq + 1
                      THEN [user_id |-> userId, title |-> SessionTitle(title),
                            created_at |-> now, last_message_at |-> now]
                      ELSE chat_sessions[id]]
            /\ sessionSeq' = sessionSeq + 1
            /\ UNCHANGED now
  /\ UNCHANGED <<chat_messages, pm, gt, storeVars, authVars, opVars, sessVars, replyVars>>

(***************************************************************************)
(* ChatService.processMessage, one action per await                        *)
(***************************************************************************)
\* The controller hands the request to processMessage (no session is looked up).
pmCall(c, userId, sessionId, message, category) ==
  /\ pm[c].pc = "idle"
  /\ Len(chat_messages) + Cardinality(InFlight) < MaxMessages
  /\ pm' = [pm EXCEPT ![c] = [IdleCall EXCEPT !.pc = "loadHistory", !.userId = userId,
                                !.sessionId = sessionId, !.message = message,
                                !.category = category,
                                !.rowsAtCall = Len(chat_messages)]]
  /\ UNCHANGED <<chat_sessions, chat_messages, now, sessionSeq, gt, storeVars, authVars, opVars, sessVars, replyVars>>

\* 1. const history = await this.loadChatHistory(sessionId)
pmLoadHistory(c, queryError) ==
  /\ pm[c].pc = "loadHistory"
  /\ pm' = [pm EXCEPT ![c].pc = "generateSearchQuery",
                      ![c].historyError = queryError,
                      ![c].emptyAtLoad = (Len(SessionMessages(pm[c].sessionId)) = 0),
                      ![c].history = loadChatHistory(pm[c].sessionId, queryError)]
  /\ UNCHANGED <<chat_sessions, chat_messages, now, sessionSeq, gt, storeVars, authVars, opVars, sessVars, replyVars>>

\* A catch that falls back to the next step when the query rewrite fails.
ThrownUnlessRewrite(call, step) ==
  IF step = "generateSearchQuery" THEN [call EXCEPT !.pc = "similaritySearch", !.failedAt = step]
  ELSE [call EXCEPT !.pc = "thrown", !.failedAt = step]

FailedToProcessPrefix == <<"F","a","i","l","e","d"," ","t","o"," ","p","r","o","c","e","s","s"," ","m","e","s","s","a","g","e",":"," ">>
GenericSendError == <<"A","n"," ","e","r","r","o","r"," ","o","c","c","u","r","r","e","d"," ","p","r","o","c","e","s","s","i","n","g"," ","t","h","e"," ","m","e","s","s","a","g","e">>

\* error.message of what a step threw: the text of the library or provider
\* that failed, one token per failing step.
ErrorMessage(why) == <<why>>

\* A controller catch that always answers with its fixed text.
SendMessageErrorGeneric(message) == [status |-> 500, msg |-> GenericSendError]

\* ChatController.sendMessage, catch: 500 with error.message, or with the fixed
\* text when the error has no message.
SendMessageError(message) ==
  [status |-> 500, msg |-> IF message # <<>> THEN message ELSE GenericSendError]

\* What the catch of processMessage makes of a throw at `step`: it throws
\* new Error(`Failed to process message: ${error.message}`), which the
\* controller answers.
Thrown(call, step) ==
  LET answer == SendMessageError(FailedToProcessPrefix \o ErrorMessage(step))
  IN  [call EXCEPT !.pc = "thrown", !.failedAt = step,
                   !.status = answer.status, !.msg = answer.msg]

\* 2. const searchQuery = await this.generateSearchQuery(history, message)
pmGenerateSearchQuery(c, modelFails, query) ==
  /\ pm[c].pc = "generateSearchQuery"
  /\ LET sent == [pm[c] EXCEPT !.queryPrompt = Prompt(pm[c].history, pm[c].message, <<>>)]
     IN  pm' = [pm EXCEPT ![c] =
                  IF modelFails THEN Thrown(sent, "generateSearchQuery")
                  ELSE [sent EXCEPT !.pc = "similaritySearch", !.searchQuery = query]]
  /\ UNCHANGED <<chat_sessions, chat_messages, now, sessionSeq, gt, storeVars, authVars, opVars, sessVars, replyVars>>

\* A filtered branch of step 3 that asks for every match.
SearchLimitFilteredAll(category) ==
  IF category # "" THEN Cardinality(documents) ELSE similaritySearchResults

\* The k both branches of step 3 pass to similaritySearch.
SearchLimit(category) == similaritySearchResults

\* 3. documents = await this.vectorStore.similaritySearch(searchQuery, K[, filter])
pmSimilaritySearch(c, storeFails) ==
  /\ pm[c].pc = "similaritySearch"
  /\ pm' = [pm EXCEPT ![c] =
              IF storeFails THEN Thrown(pm[c], "similaritySearch")
              ELSE [pm[c] EXCEPT !.pc = "invoke",
                      !.docs = similaritySearch(pm[c].searchQuery,
                                                SearchLimit(pm[c].category),
                                                pm[c].category)]]
  /\ UNCHANGED <<chat_sessions, chat_messages, now, sessionSeq, gt, storeVars, authVars, opVars, sessVars, replyVars>>

\* 4. const response = await chain.invoke({}): the prompt is rendered from history,
\* message and context, and sent to the model.
pmInvoke(c, modelFails, response) ==
  /\ pm[c].pc = "invoke"
  /\ LET sent == [pm[c] EXCEPT !.answerPrompt =
                    Prompt(pm[c].history, pm[c].message,
                           PromptContext(BuildContext(pm[c].docs)))]
     IN  pm' = [pm EXCEPT ![c] =
                  IF modelFails THEN Thrown(sent, "invoke")
                  ELSE [sent EXCEPT !.pc = "insert", !.response = response]]
  /\ UNCHANGED <<chat_sessions, chat_messages, now, sessionSeq, gt, storeVars, authVars, opVars, sessVars, replyVars>>

\* A saveChatMessage that throws on either error.
SaveThrowsOnEither(insertError, updateError) == insertError \/ updateError

\* Whether saveChatMessage throws: on an insert error it does, on an error of the
\* last_message_at update it only logs ("Not throwing here as the message was saved").
SaveThrows(insertError, updateError) == insertError

\* An insert that keeps one row per session (an upsert on session_id).
InsertRowPerSession(rows, row) ==
  SelectSeq(rows, LAMBDA m : m.session_id # row.session_id) \o <<row>>

\* .from('chat_messages').insert({...}): a new row, the others untouched.
InsertRow(rows, row) == Append(rows, row)

\* 5. saveChatMessage, first await: the insert into chat_messages.
pmInsert(c, insertError) ==
  /\ pm[c].pc = "insert"
  /\ IF SaveThrows(insertError, FALSE)
       THEN /\ pm' = [pm EXCEPT ![c] = Thrown(pm[c], "insert")]
            /\ UNCHANGED <<chat_messages, now>>
       ELSE /\ chat_messages' = InsertRow(chat_messages,
                 [user_id |-> pm[c].userId, session_id |-> pm[c].sessionId,
                  user_message |-> pm[c].message, ai_response |-> pm[c].response,
                  created_at |-> now])
            /\ now' = now + 1
            /\ pm' = [pm EXCEPT ![c].pc = "update", ![c].inserted = TRUE]
  /\ UNCHANGED <<chat_sessions, sessionSeq, gt, storeVars, authVars, opVars, sessVars, replyVars>>

\* 5. saveChatMessage, second await: the update of last_message_at; then
\* 6. return { response, sources }.
pmUpdate(c, updateError) ==
  /\ pm[c].pc = "update"
  /\ IF updateError \/ pm[c].sessionId \notin DOMAIN chat_sessions
       THEN UNCHANGED <<chat_sessions, now>>
       ELSE /\ chat_sessions' = [chat_sessions EXCEPT ![pm[c].sessionId].last_message_at = now]
            /\ now' = now + 1
  /\ pm' = [pm EXCEPT ![c] =
              IF SaveThrows(FALSE, updateError)
                THEN Thrown([pm[c] EXCEPT !.updateError = TRUE], "update")
                ELSE [pm[c] EXCEPT !.pc = "returned", !.updateError = updateError,
                        !.status = 200,
                        !.stamp = IF updateError \/ pm[c].sessionId \notin DOMAIN chat_sessions
                                    THEN 0 ELSE now,
                        !.result = [response |-> pm[c].response,
                                    sources |-> BuildSources(pm[c].docs)]]]
  /\ UNCHANGED <<chat_messages, sessionSeq, gt, storeVars, authVars, opVars, sessVars, replyVars>>

\* The controller has answered (200 with the result, or 500): the call is over.
pmDone(c) ==
  /\ pm[c].pc \in {"returned", "thrown"}
  /\ pm' = [pm EXCEPT ![c] = IdleCall]
  /\ UNCHANGED <<chat_sessions, chat_messages, now, sessionSeq, gt, storeVars, authVars, opVars, sessVars, replyVars>>

(***************************************************************************)
(* ChatService.generateChatTitle                                           *)
(***************************************************************************)
Spaces(n) == [i \in 1..n |-> " "]

\* A model output: a body of n characters (every seventh a blank) between
\* `lead` leading and `trail` trailing blanks.
ModelTitle(lead, n, trail) ==
  Spaces(lead) \o [i \in 1..n |-> IF i % 7 = 0 THEN " " ELSE "t"] \o Spaces(trail)

\* Body lengths: the short ones and those around the cut and the limit.
TitleLengths == {0, 1} \cup ((TitleCut - 1)..MaxTitleLen)

ModelTitles == { ModelTitle(lead, n, trail) : lead \in 0..1, n \in TitleLengths, trail \in 0..1 }

\* A cut at the limit itself, the ellipsis then added to it.
CleanTitleCutAtMax(raw) ==
  LET title == Trim(raw)
  IN  IF Len(title) > TitleMax THEN Substring(title, 0, TitleMax) \o Ellipsis ELSE title

\* title = title.trim(); if (title.length > 50) title = title.substring(0, 47) + '...'
CleanTitle(raw) ==
  LET title == Trim(raw)
  IN  IF Len(title) > TitleMax THEN Substring(title, 0, TitleCut) \o Ellipsis ELSE title

IdleTitle ==
  [pc |-> "idle", userId |-> "", sessionId |-> 0, invoked |-> FALSE, raw |-> <<>>,
   title |-> <<>>, written |-> FALSE, result |-> <<>>]

gtCall(userId, sessionId) ==
  /\ gt.pc = "idle"
  /\ gt' = [IdleTitle EXCEPT !.pc = "select", !.userId = userId, !.sessionId = sessionId]
  /\ UNCHANGED <<chat_sessions, chat_messages, now, sessionSeq, pm, storeVars, authVars, opVars, sessVars, replyVars>>

\* An ownership lookup without the user_id filter.
OwnSessionAnyUser(userId, sessionId) == sessionId \in DOMAIN chat_sessions

\* .select('id').eq('id', sessionId).eq('user_id', userId).single()
OwnSession(userId, sessionId) ==
  sessionId \in DOMAIN chat_sessions /\ chat_sessions[sessionId].user_id = userId

\* The ownership lookup: on an error or no row the fixed title is returned.
gtSelect(queryError) ==
  /\ gt.pc = "select"
  /\ gt' = IF queryError \/ ~OwnSession(gt.userId, gt.sessionId)
             THEN [gt EXCEPT !.pc = "returned", !.result = NewConversation]
             ELSE [gt EXCEPT !.pc = "invoke"]
  /\ UNCHANGED <<chat_sessions, chat_messages, now, sessionSeq, pm, storeVars, authVars, opVars, sessVars, replyVars>>

\* chain.invoke: the model's output is trimmed and cut; a throw is caught and
\* the fixed title returned.
gtInvoke(modelFails, raw) ==
  /\ gt.pc = "invoke"
  /\ gt' = IF modelFails
             THEN [gt EXCEPT !.pc = "returned", !.result = NewConversation]
             ELSE [gt EXCEPT !.pc = "update", !.invoked = TRUE, !.raw = raw,
                             !.title = CleanTitle(raw)]
  /\ UNCHANGED <<chat_sessions, chat_messages, now, sessionSeq, pm, storeVars, authVars, opVars, sessVars, replyVars>>

\* .update({ title }).eq('id', sessionId): an update error is only logged.
gtUpdate(updateError) ==
  /\ gt.pc = "update"
  /\ IF updateError \/ gt.sessionId \notin DOMAIN chat_sessions
       THEN /\ UNCHANGED chat_sessions
            /\ gt' = [gt EXCEPT !.pc = "returned", !.result = gt.title]
       ELSE /\ chat_sessions' = [chat_sessions EXCEPT ![gt.sessionId].title = gt.title]
            /\ gt' = [gt EXCEPT !.pc = "returned", !.result = gt.title, !.written = TRUE]
  /\ UNCHANGED <<chat_messages, now, sessionSeq, pm, storeVars, authVars, opVars, sessVars, replyVars>>

gtDone ==
  /\ gt.pc = "returned"
  /\ gt' = IdleTitle
  /\ UNCHANGED <<chat_sessions, chat_messages, now, sessionSeq, pm, storeVars, authVars, opVars, sessVars, replyVars>>

(***************************************************************************)
(* ChatService.updateChatTitle and ChatController.updateChatTitle          *)
(***************************************************************************)
\* The owner of a session, '' when there is no such session.
OwnerOf(sessionId) ==
  IF sessionId \in DOMAIN chat_sessions THEN chat_sessions[sessionId].user_id ELSE ""

IdleRetitle ==
  [pc |-> "idle", userId |-> "", isAdmin |-> FALSE, sessionId |-> 0, title |-> <<>>,
   ownerAtCall |-> "", written |-> FALSE, status |-> 0]

\* The controller's answer to the service's boolean: 200, or 404 'Chat session
\* not found or you do not have permission to update it'.
UpdateTitleStatus(success) == IF success THEN 200 ELSE 404

\* PUT /chat/session/:sessionId/title by the user of the token; isAdmin is the
\* token's user_metadata.is_admin, which the controller does not pass on.
utCall(userId, isAdmin, sessionId, title) ==
  /\ ut.pc = "idle"
  /\ ut' = [IdleRetitle EXCEPT !.pc = "select", !.userId = userId, !.isAdmin = isAdmin,
              !.sessionId = sessionId, !.title = title, !.ownerAtCall = OwnerOf(sessionId)]
  /\ UNCHANGED <<chatVars, storeVars, authVars, ds, chat_topics, dt, hook, events, sessVars, replyVars>>

\* The ownership lookup: on an error or no row the service returns false.
utSelect(queryError) ==
  /\ ut.pc = "select"
  /\ ut' = IF queryError \/ ~OwnSession(ut.userId, ut.sessionId)
             THEN [ut EXCEPT !.pc = "returned", !.status = UpdateTitleStatus(FALSE)]
             ELSE [ut EXCEPT !.pc = "update"]
  /\ UNCHANGED <<chatVars, storeVars, authVars, ds, chat_topics, dt, hook, events, sessVars, replyVars>>

\* .update({ title }).eq('id', sessionId): false on an error, else true.
utUpdate(updateError) ==
  /\ ut.pc = "update"
  /\ IF updateError \/ ut.sessionId \notin DOMAIN chat_sessions
       THEN /\ UNCHANGED chat_sessions
            /\ ut' = [ut EXCEPT !.pc = "returned", !.status = UpdateTitleStatus(~updateError)]
       ELSE /\ chat_sessions' = [chat_sessions EXCEPT ![ut.sessionId].title = ut.title]
            /\ ut' = [ut EXCEPT !.pc = "returned", !.written = TRUE,
                                !.status = UpdateTitleStatus(TRUE)]
  /\ UNCHANGED <<chat_messages, now, sessionSeq, pm, gt, storeVars, authVars,
                 ds, chat_topics, dt, hook, events, sessVars, replyVars>>

utDone ==
  /\ ut.pc = "returned"
  /\ ut' = IdleRetitle
  /\ UNCHANGED <<chatVars, storeVars, authVars, ds, chat_topics, dt, hook, events, sessVars, replyVars>>

(***************************************************************************)
(* ChatService.deleteChatSession and ChatController.deleteChatSession      *)
(***************************************************************************)
IdleSessionDelete ==
  [pc |-> "idle", userId |-> "", isAdmin |-> FALSE, sessionId |-> 0, ownerAtCall |-> "",
   deletedMessages |-> FALSE, deleted |-> FALSE, status |-> 0]

\* The controller's answer to the service's boolean: 200, or 404 'Chat session
\* not found or you do not have permission to delete it'.
DeleteSessionStatus(success) == IF success THEN 200 ELSE 404

\* DELETE /chat/session/:sessionId by the user of the token.
dsCall(userId, isAdmin, sessionId) ==
  /\ ds.pc = "idle"
  /\ ds' = [IdleSessionDelete EXCEPT !.pc = "select", !.userId = userId, !.isAdmin = isAdmin,
              !.sessionId = sessionId, !.ownerAtCall = OwnerOf(sessionId)]
  /\ UNCHANGED <<chatVars, storeVars, authVars, ut, chat_topics, dt, hook, events, sessVars, replyVars>>

\* The ownership lookup: on an error or no row the service returns false.
dsSelect(queryError) ==
  /\ ds.pc = "select"
  /\ ds' = IF queryError \/ ~OwnSession(ds.userId, ds.sessionId)
             THEN [ds EXCEPT !.pc = "returned", !.status = DeleteSessionStatus(FALSE)]
             ELSE [ds EXCEPT !.pc = "deleteMessages"]
  /\ UNCHANGED <<chatVars, storeVars, authVars, ut, chat_topics, dt, hook, events, sessVars, replyVars>>

\* .from('chat_messages').delete().eq('session_id', sessionId): an error is
\* thrown on, and the controller answers 500.
dsDeleteMessages(deleteError) ==
  /\ ds.pc = "deleteMessages"
  /\ IF deleteError
       THEN /\ UNCHANGED chat_messages
            /\ ds' = [ds EXCEPT !.pc = "returned", !.status = 500]
       ELSE /\ chat_messages' =
                 SelectSeq(chat_messages, LAMBDA m : m.session_id # ds.sessionId)
            /\ ds' = [ds EXCEPT !.pc = "deleteSession", !.deletedMessages = TRUE]
  /\ UNCHANGED <<chat_sessions, now, sessionSeq, pm, gt, storeVars, authVars,
                 ut, chat_topics, dt, hook, events, sessVars, replyVars>>

\* .from('chat_sessions').delete().eq('id', sessionId)
dsDeleteSession(deleteError) ==
  /\ ds.pc = "deleteSession"
  /\ IF deleteError
       THEN /\ UNCHANGED chat_sessions
            /\ ds' = [ds EXCEPT !.pc = "returned", !.status = 500]
       ELSE /\ chat_sessions' =
                 [id \in DOMAIN chat_sessions \ {ds.sessionId} |-> chat_sessions[id]]
            /\ ds' = [ds EXCEPT !.pc = "returned", !.deleted = TRUE,
                                !.status = DeleteSessionStatus(TRUE)]
  /\ UNCHANGED <<chat_messages, now, sessionSeq, pm, gt, storeVars, authVars,
                 ut, chat_topics, dt, hook, events, sessVars, replyVars>>

dsDone ==
  /\ ds.pc = "returned"
  /\ ds' = IdleSessionDelete
  /\ UNCHANGED <<chatVars, storeVars, authVars, ut, chat_topics, dt, hook, events, sessVars, replyVars>>

(***************************************************************************)
(* DocumentService                                                         *)
(***************************************************************************)
UploadIds == {1, 2}    \* slots of processDocument calls in flight

FileNames == { <<"b",".","T","X","T">>, <<"c",".","e","x","e">> }

\* path.extname(name): from the last '.' to the end; '' when there is none or
\* when the only one starts the name.
RECURSIVE LastIndexOf(_, _)
LastIndexOf(s, ch) ==
  IF s = <<>> THEN 0
  ELSE IF s[Len(s)] = ch THEN Len(s)
  ELSE LastIndexOf(SubSeq(s, 1, Len(s) - 1), ch)

ExtName(name) ==
  LET dot == LastIndexOf(name, ".")
  IN  IF dot <= 1 THEN <<>> ELSE SubSeq(name, dot, Len(name))

LowerChar(ch) ==
  CASE ch = "T" -> "t" [] ch = "X" -> "x" [] ch = "P" -> "p" [] ch = "D" -> "d"
    [] ch = "F" -> "f" [] OTHER -> ch

ToLowerCase(s) == [i \in 1..Len(s) |-> LowerChar(s[i])]

Pdf == <<".","p","d","f">>
Docx == <<".","d","o","c","x">>
TextFamily == { <<".","t","x","t">>, <<".","m","d">>, <<".","h","t","m","l">> }

\* A dispatch whose last branch loads any other file as text.
SupportedAnyExtension(ext) == TRUE

\* The extensions processDocument has a loader for.
Supported(ext) == ext = Pdf \/ ext = Docx \/ ext \in TextFamily

UnsupportedPrefix == <<"U","n","s","u","p","p","o","r","t","e","d"," ","f","i","l","e"," ","f","o","r","m","a","t",":"," ">>

\* metadata.category || 'general'
CategoryOrGeneral(category) == IF category # "" THEN category ELSE "general"

IdleUpload ==
  [pc |-> "idle", name |-> <<>>, ext |-> <<>>, title |-> <<>>, category |-> "",
   nChunks |-> 0, documentId |-> 0, success |-> FALSE, message |-> <<>>, failedAt |-> "",
   status |-> 0]

\* DocumentController.uploadDocument: 200 on success, else 400 with result.message.
UploadStatus(success) == IF success THEN 200 ELSE 400

IdleDelete ==
  [pc |-> "idle", documentId |-> 0, chunksAtCall |-> {}, failedAt |-> "", success |-> FALSE,
   status |-> 0]

\* DocumentController.deleteDocument: 200 when the service reports success, else
\* 400 with the service's message.
DeleteDocumentStatus(success) == IF success THEN 200 ELSE 400

ErrorProcessingPrefix == <<"E","r","r","o","r"," ","p","r","o","c","e","s","s","i","n","g"," ","d","o","c","u","m","e","n","t",":"," ">>

\* catch (error): return { success: false, message: `Error processing document: ${error.message}` }
Failed(call, why) ==
  [call EXCEPT !.pc = "returned", !.success = FALSE, !.failedAt = why,
               !.status = UploadStatus(FALSE),
               !.message = ErrorProcessingPrefix \o ErrorMessage(why)]

\* processDocument up to its first await: the temporary file is written, the
\* extension taken, and an unsupported one refused after the file is unlinked.
pdCall(u, name, title, category, writeFails) ==
  /\ pd[u].pc = "idle"
  /\ docSeq + Cardinality({ o \in UploadIds : pd[o].pc \in {"load", "split", "insertMetadata"} }) < MaxDocs
  /\ LET call == [IdleUpload EXCEPT !.name = name, !.title = title, !.category = category,
                                    !.ext = ToLowerCase(ExtName(name))]
     IN  IF writeFails
           THEN /\ pd' = [pd EXCEPT ![u] = Failed(call, "write")]
                /\ UNCHANGED tmp
           ELSE IF Supported(call.ext)
             THEN /\ pd' = [pd EXCEPT ![u] = [call EXCEPT !.pc = "load"]]
                  /\ tmp' = tmp \cup {name}
             ELSE /\ pd' = [pd EXCEPT ![u] = [call EXCEPT !.pc = "returned", !.success = FALSE,
                                               !.status = UploadStatus(FALSE),
                                               !.message = UnsupportedPrefix \o call.ext]]
                  /\ tmp' = tmp \ {name}
  /\ UNCHANGED <<documents, document_metadata, docSeq, rowSeq, dd, chatVars, authVars, opVars, sessVars, replyVars>>

\* docs = await loader.load()
pdLoad(u, loaderFails) ==
  /\ pd[u].pc = "load"
  /\ pd' = [pd EXCEPT ![u] = IF loaderFails THEN Failed(pd[u], "load")
                             ELSE [pd[u] EXCEPT !.pc = "split"]]
  /\ UNCHANGED <<documents, document_metadata, docSeq, rowSeq, tmp, dd, chatVars, authVars, opVars, sessVars, replyVars>>

\* splitDocs = await textSplitter.splitDocuments(docs)
pdSplit(u, splitterFails, n) ==
  /\ pd[u].pc = "split"
  /\ pd' = [pd EXCEPT ![u] = IF splitterFails THEN Failed(pd[u], "split")
                             ELSE [pd[u] EXCEPT !.pc = "insertMetadata", !.nChunks = n]]
  /\ UNCHANGED <<documents, document_metadata, docSeq, rowSeq, tmp, dd, chatVars, authVars, opVars, sessVars, replyVars>>

\* The row processDocument inserts into document_metadata.
MetadataRow(call) ==
  [title |-> call.title, category |-> CategoryOrGeneral(call.category),
   chunk_count |-> call.nChunks]

\* await supabase_admin.from('document_metadata').insert(...).select('id').single()
pdInsertMetadata(u, insertError) ==
  /\ pd[u].pc = "insertMetadata"
  /\ IF insertError
       THEN /\ pd' = [pd EXCEPT ![u] = Failed(pd[u], "insertMetadata")]
            /\ UNCHANGED <<document_metadata, docSeq>>
       ELSE /\ document_metadata' =
                 [d \in DOMAIN document_metadata \cup {docSeq + 1} |->
                    IF d = docSeq + 1 THEN MetadataRow(pd[u]) ELSE document_metadata[d]]
            /\ docSeq' = docSeq + 1
            /\ pd' = [pd EXCEPT ![u].pc = "addDocuments", ![u].documentId = docSeq + 1]
  /\ UNCHANGED <<documents, rowSeq, tmp, dd, chatVars, authVars, opVars, sessVars, replyVars>>

\* await this.vectorStore.addDocuments(docsWithId); fs.unlinkSync(tempPath); return.
\* unlinkSync throws when the file is gone, and the catch then reports a failure.
pdAddDocuments(u, storeFails) ==
  /\ pd[u].pc = "addDocuments"
  /\ IF storeFails
       THEN /\ pd' = [pd EXCEPT ![u] = Failed(pd[u], "addDocuments")]
            /\ UNCHANGED <<documents, rowSeq, tmp>>
       ELSE /\ documents' = documents \cup
                 { ChunkRow(rowSeq + i, pd[u].documentId, pd[u].title,
                            CategoryOrGeneral(pd[u].category)) : i \in 1..pd[u].nChunks }
            /\ rowSeq' = rowSeq + pd[u].nChunks
            /\ tmp' = tmp \ {pd[u].name}
            /\ pd' = [pd EXCEPT ![u] =
                        IF pd[u].name \in tmp
                          THEN [pd[u] EXCEPT !.pc = "returned", !.success = TRUE,
                                             !.status = UploadStatus(TRUE)]
                          ELSE Failed(pd[u], "unlink")]
  /\ UNCHANGED <<document_metadata, docSeq, dd, chatVars, authVars, opVars, sessVars, replyVars>>

\* The controller has answered (200 with the documentId, or 400).
pdDone(u) ==
  /\ pd[u].pc = "returned"
  /\ pd' = [pd EXCEPT ![u] = IdleUpload]
  /\ UNCHANGED <<documents, document_metadata, docSeq, rowSeq, tmp, dd, chatVars, authVars, opVars, sessVars, replyVars>>

\* deleteDocument(documentId) is called, with an id the store has handed out or
\* with 0, an id it never has.
ddCall(documentId) ==
  /\ dd.pc = "idle"
  /\ documentId <= docSeq
  /\ dd' = [IdleDelete EXCEPT !.pc = "deleteChunks", !.documentId = documentId,
              !.chunksAtCall = { r.id : r \in { x \in documents : x.documentId = documentId } }]
  /\ UNCHANGED <<documents, document_metadata, docSeq, rowSeq, tmp, pd, chatVars, authVars, opVars, sessVars, replyVars>>

\* A deleteDocument that only logs an error of the chunk delete.
ProceedsAfterAnyError(chunkDeleteError) == TRUE

\* Whether deleteDocument goes on to the metadata delete after the chunk delete:
\* an error of the chunk delete is thrown, and the catch reports the failure.
ProceedsAfter(chunkDeleteError) == ~chunkDeleteError

\* .from(tableName).delete().filter('metadata->>documentId', 'eq', documentId)
ddDeleteChunks(deleteError) ==
  /\ dd.pc = "deleteChunks"
  /\ IF deleteError
       THEN UNCHANGED documents
       ELSE documents' = { r \in documents : r.documentId # dd.documentId }
  /\ dd' = IF ProceedsAfter(deleteError)
             THEN [dd EXCEPT !.pc = "deleteMetadata"]
             ELSE [dd EXCEPT !.pc = "returned", !.success = FALSE, !.failedAt = "chunks",
                             !.status = DeleteDocumentStatus(FALSE)]
  /\ UNCHANGED <<document_metadata, docSeq, rowSeq, tmp, pd, chatVars, authVars, opVars, sessVars, replyVars>>

\* What deleteDocument returns after the metadata delete.
DeleteSucceeded(metadataDeleteError) == ~metadataDeleteError

\* .from('document_metadata').delete().eq('id', documentId)
ddDeleteMetadata(deleteError) ==
  /\ dd.pc = "deleteMetadata"
  /\ IF deleteError
       THEN UNCHANGED document_metadata
       ELSE document_metadata' =
              [d \in DOMAIN document_metadata \ {dd.documentId} |-> document_metadata[d]]
  /\ dd' = [dd EXCEPT !.pc = "returned", !.success = DeleteSucceeded(deleteError),
              !.status = DeleteDocumentStatus(DeleteSucceeded(deleteError)),
              !.failedAt = IF deleteError THEN "metadata" ELSE ""]
  /\ UNCHANGED <<documents, docSeq, rowSeq, tmp, pd, chatVars, authVars, opVars, sessVars, replyVars>>

\* The controller has answered (200, or 400 with the failure message).
ddDone ==
  /\ dd.pc = "returned"
  /\ dd' = IdleDelete
  /\ UNCHANGED <<documents, document_metadata, docSeq, rowSeq, tmp, pd, chatVars, authVars, opVars, sessVars, replyVars>>

\* The rank of a category in the store's ORDER BY category.
CategoryRank(category) ==
  CASE category = "" -> 0 [] category = "general" -> 1 [] category = "sleep" -> 2 [] OTHER -> 3

RECURSIVE OrderByCategory(_)
OrderByCategory(ids) ==
  IF ids = {} THEN <<>>
  ELSE LET first == CHOOSE d \in ids : \A o \in ids :
                      \/ CategoryRank(document_metadata[d].category)
                           < CategoryRank(document_metadata[o].category)
                      \/ /\ CategoryRank(document_metadata[d].category)
                              = CategoryRank(document_metadata[o].category)
                         /\ d <= o
       IN  <<document_metadata[first].category>> \o OrderByCategory(ids \ {first})

\* [...new Set(array)]: the first occurrence of each element, in order.
RECURSIVE Unique(_)
Unique(arr) ==
  IF arr = <<>> THEN <<>>
  ELSE LET rest == Unique(SubSeq(arr, 1, Len(arr) - 1))
           last == arr[Len(arr)]
       IN  IF \E i \in 1..Len(rest) : rest[i] = last THEN rest ELSE Append(rest, last)

\* getCategories without the Set.
getCategoriesAllRows ==
  SelectSeq(OrderByCategory(DOMAIN document_metadata), LAMBDA c : c # "")

\* DocumentService.getCategories(): select category order by category, made
\* unique, the empty ones dropped (.filter(Boolean)).
getCategories ==
  SelectSeq(Unique(OrderByCategory(DOMAIN document_metadata)), LAMBDA c : c # "")

(***************************************************************************)
(* Identity provider, users table and AuthService                          *)
(***************************************************************************)
Emails == {"e1", "e2"}
UserIdOf(email) == IF email = "e1" THEN "u1" ELSE "u2"
\* The access token the identity provider has issued to a user.
TokenOf(userId) == IF userId = "u1" THEN <<"1">> ELSE <<"2">>

AlreadyVerifiedMsg == <<"E","m","a","i","l"," ","i","s"," ","a","l","r","e","a","d","y"," ","v","e","r","i","f","i","e","d","."," ","P","l","e","a","s","e"," ","l","o","g","i","n"," ","i","n","s","t","e","a","d",".">>
TooManyRequestsMsg == <<"T","o","o"," ","m","a","n","y"," ","r","e","q","u","e","s","t","s","."," ","P","l","e","a","s","e"," ","t","r","y"," ","a","g","a","i","n"," ","l","a","t","e","r",".">>
EmailRequiredMsg == <<"E","m","a","i","l"," ","i","s"," ","r","e","q","u","i","r","e","d">>
ErrorVerifyingMsg == <<"E","r","r","o","r"," ","v","e","r","i","f","y","i","n","g"," ","u","s","e","r"," ","e","m","a","i","l">>
NoUserFoundMsg == <<"N","o"," ","u","s","e","r"," ","f","o","u","n","d"," ","w","i","t","h"," ","t","h","i","s"," ","e","m","a","i","l"," ","a","d","d","r","e","s","s">>
CodeSentMsg == <<"N","e","w"," ","v","e","r","i","f","i","c","a","t","i","o","n"," ","c","o","d","e"," ","s","e","n","t"," ","t","o"," ","y","o","u","r"," ","e","m","a","i","l">>
UnexpectedErrorMsg == <<"A","n"," ","e","r","r","o","r"," ","o","c","c","u","r","r","e","d"," ","w","h","i","l","e"," ","p","r","o","c","e","s","s","i","n","g"," ","y","o","u","r"," ","r","e","q","u","e","s","t","."," ","P","l","e","a","s","e"," ","t","r","y"," ","a","g","a","i","n"," ","l","a","t","e","r",".">>
AlreadyConfirmedNeedle == <<"a","l","r","e","a","d","y"," ","c","o","n","f","i","r","m","e","d">>
RateLimitNeedle == <<"r","a","t","e"," ","l","i","m","i","t">>
ProviderAlreadyConfirmed == <<"E","m","a","i","l"," ","a","l","r","e","a","d","y"," ","c","o","n","f","i","r","m","e","d">>
ProviderRateLimit == <<"E","m","a","i","l"," ","r","a","t","e"," ","l","i","m","i","t"," ","e","x","c","e","e","d","e","d">>
ProviderSendFailure == <<"E","r","r","o","r"," ","s","e","n","d","i","n","g"," ","c","o","n","f","i","r","m","a","t","i","o","n"," ","e","m","a","i","l">>
BearerPrefix == <<"B","e","a","r","e","r"," ">>

\* String.prototype.startsWith / includes
StartsWith(s, prefix) ==
  Len(s) >= Len(prefix) /\ SubSeq(s, 1, Len(prefix)) = prefix

Includes(s, needle) ==
  \E i \in 1..(Len(s) - Len(needle) + 1) : SubSeq(s, i, i + Len(needle) - 1) = needle

\* String.prototype.split(ch): the segments between the occurrences of ch.
RECURSIVE SplitOn(_, _)
SplitOn(s, ch) ==
  IF \A i \in 1..Len(s) : s[i] # ch THEN <<s>>
  ELSE LET at == CHOOSE i \in 1..Len(s) : s[i] = ch /\ \A j \in 1..(i - 1) : s[j] # ch
       IN  <<SubSeq(s, 1, at - 1)>> \o SplitOn(SubSeq(s, at + 1, Len(s)), ch)

\* AuthService.createUserRecord: an upsert on id that sets the role; an error
\* is only logged.
createUserRecord(userId, role, upsertError) ==
  IF upsertError THEN users
  ELSE [id \in DOMAIN users \cup {userId} |-> IF id = userId THEN [role |-> role] ELSE users[id]]

\* AuthService.signUp: the provider creates an unconfirmed account and sends the
\* code; for an address already registered nothing changes.
signUp(email, providerError) ==
  /\ auth_users' =
       IF providerError \/ UserIdOf(email) \in DOMAIN auth_users THEN auth_users
       ELSE [id \in DOMAIN auth_users \cup {UserIdOf(email)} |->
               IF id = UserIdOf(email)
                 THEN [email |-> email, confirmed |-> FALSE, is_admin |-> FALSE, password |-> "p"]
                 ELSE auth_users[id]]
  /\ UNCHANGED <<users, req, otp, chatVars, storeVars, opVars, sessVars, replyVars>>

\* AuthService.verifyOtp: the provider confirms the account, then the users
\* record is upserted with role 'user'.
verifyOtp(email, codeOk, upsertError) ==
  LET id == UserIdOf(email)
      verified == codeOk /\ id \in DOMAIN auth_users /\ ~auth_users[id].confirmed
  IN  /\ auth_users' = IF verified THEN [auth_users EXCEPT ![id].confirmed = TRUE]
                       ELSE auth_users
      /\ users' = IF verified THEN createUserRecord(id, "user", upsertError) ELSE users
      /\ UNCHANGED <<req, otp, chatVars, storeVars, opVars, sessVars, replyVars>>

\* process.env.ADMIN_SECRET_KEY
AdminSecretKey == "s3cret"

\* An admin-secret test that only asks for some secret.
AdminSecretAny(adminSecret) == adminSecret # ""

\* The admin secret passes `!adminSecret || adminSecret !== process.env.ADMIN_SECRET_KEY`.
AdminSecretOk(adminSecret) == adminSecret # "" /\ adminSecret = AdminSecretKey

\* What signUpAdmin writes: with the right secret the provider creates a
\* confirmed account whose user_metadata.is_admin is true, and the users record
\* is upserted with role 'admin'.
signUpAdminWrites(email, adminSecret, providerError, upsertError) ==
  LET id == UserIdOf(email)
      created == /\ email # "" /\ AdminSecretOk(adminSecret)
                 /\ ~providerError /\ id \notin DOMAIN auth_users
  IN  /\ auth_users' =
           IF created
             THEN [u \in DOMAIN auth_users \cup {id} |->
                     IF u = id THEN [email |-> email, confirmed |-> TRUE, is_admin |-> TRUE, password |-> "p"]
                     ELSE auth_users[u]]
             ELSE auth_users
      /\ users' = IF created THEN createUserRecord(id, "admin", upsertError) ELSE users

\* AuthService.signUpAdmin, its answer left aside.
signUpAdmin(email, adminSecret, providerError, upsertError) ==
  /\ signUpAdminWrites(email, adminSecret, providerError, upsertError)
  /\ UNCHANGED <<req, otp, chatVars, storeVars, opVars, sessVars, replyVars>>

\* POST /auth/admin/register (AuthController.registerAdmin, then signUpAdmin)
\* with its answer: 400 for a missing field, 403 for a wrong secret, 400 when
\* the provider refuses (it does for an address already registered), else 200.
\* An empty email stands for any missing field other than the secret.
registerAdmin(email, adminSecret, providerError, upsertError) ==
  /\ signUpAdminWrites(email, adminSecret, providerError, upsertError)
  /\ aa' = [route |-> "registerAdmin", adminSecret |-> adminSecret,
             user |-> IF email = "" THEN "" ELSE UserIdOf(email),
             status |-> IF email = "" \/ adminSecret = "" THEN 400
                        ELSE IF ~AdminSecretOk(adminSecret) THEN 403
                        ELSE IF providerError \/ UserIdOf(email) \in DOMAIN auth_users THEN 400
                        ELSE 200]
  /\ UNCHANGED <<req, otp, chatVars, storeVars, opVars, sessVars, gh, pr, rp>>

\* No request that carries an admin secret has been made.
NoAdminRequest == [route |-> "", adminSecret |-> "", user |-> "", status |-> 0]

(***************************************************************************)
(* AuthMiddleware.requireAuth and AdminMiddleware.requireAdmin             *)
(***************************************************************************)
Headers ==
  { <<>>, <<"B","a","s","i","c"," ","1">>, BearerPrefix, BearerPrefix \o <<"1">>,
    BearerPrefix \o <<"2">>, BearerPrefix \o <<"9">> }

\* authHeader.split(' ')[1]
BearerToken(header) ==
  LET parts == SplitOn(header, " ") IN IF Len(parts) >= 2 THEN parts[2] ELSE <<>>

\* supabase.auth.getUser(token): the account the token was issued to, if any
\* (the provider issues a token only to a confirmed account).
TokenUser(token) ==
  LET holders == { u \in DOMAIN auth_users : auth_users[u].confirmed /\ TokenOf(u) = token }
  IN  IF holders # {} THEN CHOOSE u \in holders : TRUE ELSE ""

\* POST /auth/admin/reset-password (AuthController.resetAdminPassword, then
\* AuthService.resetAdminPassword): 400 without a password, a token or a secret,
\* 403 for a wrong secret, 400 when getUser(token) finds no user, 403 when the
\* user is no admin, 400 when updateUserById fails; else the password is set.
resetAdminPassword(newPassword, token, adminSecret, tokenError, updateError) ==
  LET id == IF tokenError THEN "" ELSE TokenUser(token)
      status == IF newPassword = "" \/ token = <<>> \/ adminSecret = "" THEN 400
                ELSE IF ~AdminSecretOk(adminSecret) THEN 403
                ELSE IF id = "" THEN 400
                ELSE IF ~auth_users[id].is_admin THEN 403
                ELSE IF updateError THEN 400
                ELSE 200
  IN  /\ auth_users' = IF status = 200
                         THEN [auth_users EXCEPT ![id].password = newPassword]
                         ELSE auth_users
      /\ aa' = [route |-> "resetAdminPassword", adminSecret |-> adminSecret,
                 user |-> IF newPassword = "" \/ token = <<>> THEN "" ELSE id,
                 status |-> status]
      /\ UNCHANGED <<users, req, otp, chatVars, storeVars, opVars, sessVars, gh, pr, rp>>

\* A requireAuth that takes the second word of any Authorization header.
requireAuthAnyScheme(header, provider) ==
  IF header = <<>> THEN [status |-> 401, user |-> ""]
  ELSE IF BearerToken(header) = <<>> THEN [status |-> 401, user |-> ""]
  ELSE IF provider = "throw" THEN [status |-> 500, user |-> ""]
  ELSE IF provider = "error" \/ TokenUser(BearerToken(header)) = ""
    THEN [status |-> 401, user |-> ""]
  ELSE [status |-> 0, user |-> TokenUser(BearerToken(header))]

\* requireAuth: the status it answers with, or 0 when it calls next() with
\* req.user set. `provider` is the outcome of getUser: "ok", "error" or "throw".
requireAuth(header, provider) ==
  IF header = <<>> \/ ~StartsWith(header, BearerPrefix) THEN [status |-> 401, user |-> ""]
  ELSE IF BearerToken(header) = <<>> THEN [status |-> 401, user |-> ""]
  ELSE IF provider = "throw" THEN [status |-> 500, user |-> ""]
  ELSE IF provider = "error" \/ TokenUser(BearerToken(header)) = ""
    THEN [status |-> 401, user |-> ""]
  ELSE [status |-> 0, user |-> TokenUser(BearerToken(header))]

\* A lookup branch that answers a non-admin role with 401.
AdminLookupStatusUnauthorized(userId, lookupError) ==
  IF lookupError \/ userId \notin DOMAIN users THEN 500
  ELSE IF users[userId].role = "admin" THEN 0
  ELSE 401

\* The status AdminMiddleware.requireAdmin answers with after the users-table
\* lookup (.single(): no row is an error), or 0 when it calls next().
AdminLookupStatus(userId, lookupError) ==
  IF lookupError \/ userId \notin DOMAIN users THEN 500
  ELSE IF users[userId].role = "admin" THEN 0
  ELSE 403

\* AdminMiddleware.requireAdmin: 401 without req.user, next() on the token
\* claim, else the users-table lookup.
requireAdmin(userId, lookupError) ==
  IF userId = "" THEN 401
  ELSE IF auth_users[userId].is_admin THEN 0
  ELSE AdminLookupStatus(userId, lookupError)

\* A request to an admin-only endpoint (POST /document/upload: requireAuth,
\* requireAdmin, handler), up to the handler.
adminRequest(header, provider, lookupError) ==
  LET auth == requireAuth(header, provider)
      admin == IF auth.status = 0 THEN requireAdmin(auth.user, lookupError) ELSE auth.status
  IN  /\ req' = [route |-> "upload", header |-> header, provider |-> provider,
                 authStatus |-> auth.status, user |-> auth.user,
                 claimAdmin |-> (auth.user # "" /\ auth_users[auth.user].is_admin),
                 tableRole |-> IF auth.user # "" /\ auth.user \in DOMAIN users
                                 THEN users[auth.user].role ELSE "",
                 lookupError |-> lookupError,
                 status |-> admin, handler |-> (admin = 0)]
      /\ UNCHANGED <<auth_users, users, otp, chatVars, storeVars, opVars, sessVars, replyVars>>

\* AuthMiddleware.requireAdmin: 401 without req.user, next() on the token
\* claim user_metadata.is_admin, else 403.
AuthRequireAdmin(userId) ==
  IF userId = "" THEN 401
  ELSE IF auth_users[userId].is_admin THEN 0
  ELSE 403

\* A request to GET /auth/users (requireAuth, AuthMiddleware.requireAdmin,
\* handler), up to the handler.
usersRequest(header, provider) ==
  LET auth == requireAuth(header, provider)
      admin == IF auth.status = 0 THEN AuthRequireAdmin(auth.user) ELSE auth.status
  IN  /\ req' = [route |-> "users", header |-> header, provider |-> provider,
                 authStatus |-> auth.status, user |-> auth.user,
                 claimAdmin |-> (auth.user # "" /\ auth_users[auth.user].is_admin),
                 tableRole |-> IF auth.user # "" /\ auth.user \in DOMAIN users
                                 THEN users[auth.user].role ELSE "",
                 lookupError |-> FALSE,
                 status |-> admin, handler |-> (admin = 0)]
      /\ UNCHANGED <<auth_users, users, otp, chatVars, storeVars, opVars, sessVars, replyVars>>

IdleAdminLogin == [pc |-> "idle", user |-> "", status |-> 0]

\* AuthService.adminLogin up to its first await: signInWithPassword on the
\* module-level client, which from then on holds the session of the account
\* that signed in; wrong credentials are answered 401.
adminLogin(email, credentialsOk) ==
  LET id == UserIdOf(email)
      signedIn == credentialsOk /\ id \in DOMAIN auth_users /\ auth_users[id].confirmed
  IN  /\ al.pc = "idle"
      /\ al' = IF signedIn THEN [pc |-> "record", user |-> id, status |-> 0]
               ELSE [pc |-> "idle", user |-> "", status |-> 401]
      /\ client' = IF signedIn THEN id ELSE client
      /\ UNCHANGED <<auth_users, users, req, otp, chatVars, storeVars, opVars, replyVars>>

\* AuthService.adminLogin after the sign-in: the users record is upserted with
\* role 'admin' when the token claim, app_metadata.role or the profiles row says
\* admin (`adminElsewhere`: one of the latter two does), else with 'user'; a
\* caller who is no admin is answered 403 after this.supabase.auth.signOut(),
\* which drops whatever session the module-level client holds by then.
adminLoginRecord(adminElsewhere, upsertError) ==
  LET isAdmin == auth_users[al.user].is_admin \/ adminElsewhere
  IN  /\ al.pc = "record"
      /\ users' = createUserRecord(al.user, IF isAdmin THEN "admin" ELSE "user", upsertError)
      /\ client' = IF isAdmin THEN client ELSE ""
      /\ al' = [pc |-> "idle", user |-> al.user, status |-> IF isAdmin THEN 200 ELSE 403]
      /\ UNCHANGED <<auth_users, req, otp, chatVars, storeVars, opVars, replyVars>>

\* AuthService.signOut: this.supabase.auth.signOut() on the module-level client.
signOut(providerError) ==
  /\ client' = IF providerError THEN client ELSE ""
  /\ UNCHANGED <<authVars, chatVars, storeVars, opVars, al, replyVars>>

\* AuthService.login: signInWithPassword on the module-level client, then the
\* users record is upserted with role 'user' ("ensure user record exists").
login(email, credentialsOk, upsertError) ==
  LET id == UserIdOf(email)
      signedIn == credentialsOk /\ id \in DOMAIN auth_users /\ auth_users[id].confirmed
  IN  /\ users' = IF signedIn THEN createUserRecord(id, "user", upsertError) ELSE users
      /\ client' = IF signedIn THEN id ELSE client
      /\ UNCHANGED <<auth_users, req, otp, chatVars, storeVars, opVars, al, replyVars>>

\* AuthService.getCurrentUser: after getUser(token) has resolved the account the
\* users record is upserted with role 'user'.
getCurrentUser(token, providerError, upsertError) ==
  LET id == TokenUser(token)
  IN  /\ users' = IF ~providerError /\ id # ""
                    THEN createUserRecord(id, "user", upsertError) ELSE users
      /\ UNCHANGED <<auth_users, req, otp, chatVars, storeVars, opVars, sessVars, replyVars>>

\* AuthService.exchangeCodeForSession: the provider signs the OAuth account in
\* on the module-level client, creating it when it is new, and the users record
\* is upserted with role 'user'.
exchangeCodeForSession(email, providerError, upsertError) ==
  LET id == UserIdOf(email)
  IN  /\ auth_users' =
           IF providerError \/ id \in DOMAIN auth_users THEN auth_users
           ELSE [u \in DOMAIN auth_users \cup {id} |->
                   IF u = id THEN [email |-> email, confirmed |-> TRUE, is_admin |-> FALSE, password |-> "p"]
                   ELSE auth_users[u]]
      /\ users' = IF providerError THEN users ELSE createUserRecord(id, "user", upsertError)
      /\ client' = IF providerError THEN client ELSE id
      /\ UNCHANGED <<req, otp, chatVars, storeVars, opVars, al, replyVars>>

NoRequest ==
  [route |-> "", header |-> <<>>, provider |-> "", authStatus |-> 0, user |-> "",
   claimAdmin |-> FALSE, tableRole |-> "", lookupError |-> FALSE, status |-> 0,
   handler |-> FALSE]

(***************************************************************************)
(* AuthService.resendOtp                                                   *)
(***************************************************************************)
\* The provider call throws instead of answering.
Throw == <<"t","h","r","o","w">>

\* The answers of supabase_admin.auth.resend for an account: for a confirmed one
\* the "already confirmed" error, for an unconfirmed one the code is sent; a
\* rate limit, another provider error or an exception may come instead.
ResendAnswers(account) ==
  (IF account.confirmed THEN {ProviderAlreadyConfirmed} ELSE {<<>>})
    \cup {ProviderRateLimit, ProviderSendFailure, Throw}

\* A result of resendOtp with the status the controller answers with
\* (result.statusCode || 200).
OtpResult(status, msg, statusCode) ==
  [status |-> status, msg |-> msg, statusCode |-> statusCode]

\* A resendOtp that passes every provider error message on.
ResendErrorPassedOn(message) == OtpResult(FALSE, message, 400)

\* The result of resendOtp on a provider error with message `message`.
ResendError(message) ==
  IF Includes(message, AlreadyConfirmedNeedle) THEN OtpResult(FALSE, AlreadyVerifiedMsg, 400)
  ELSE IF Includes(message, RateLimitNeedle) THEN OtpResult(FALSE, TooManyRequestsMsg, 429)
  ELSE OtpResult(FALSE, message, 400)

\* What resendOtp returns; `answer` is the provider's answer to resend: <<>> for
\* success, Throw for an exception, else the error's message.
ResendOtpResult(email, listError, answer) ==
  IF email = "" THEN OtpResult(FALSE, EmailRequiredMsg, 400)
  ELSE IF listError THEN OtpResult(FALSE, ErrorVerifyingMsg, 400)
  ELSE IF UserIdOf(email) \notin DOMAIN auth_users THEN OtpResult(FALSE, NoUserFoundMsg, 404)
  ELSE IF answer = Throw THEN OtpResult(FALSE, UnexpectedErrorMsg, 500)
  ELSE IF answer # <<>> THEN ResendError(answer)
  ELSE OtpResult(TRUE, CodeSentMsg, 200)

\* AuthService.resendOtp(email)
resendOtp(email, listError, answer) ==
  /\ otp' = [email |-> email, listError |-> listError,
             known |-> (email # "" /\ UserIdOf(email) \in DOMAIN auth_users),
             answer |-> answer, result |-> ResendOtpResult(email, listError, answer)]
  /\ UNCHANGED <<auth_users, users, req, chatVars, storeVars, opVars, sessVars, replyVars>>

NoOtp ==
  [email |-> "", listError |-> FALSE, known |-> FALSE, answer |-> <<>>,
   result |-> OtpResult(FALSE, <<>>, 0)]

(***************************************************************************)
(* Chat topics: ChatService.createChatTopic, deleteChatTopic and the       *)
(* controller's answers                                                    *)
(***************************************************************************)
\* Topic ids a request may name: those the store hands out and one it never does.
TopicIds == 0..MaxTopics

NoTopics == [seq |-> 0, ids |-> {}]

\* POST /chat/admin/topics: the insert hands out the next id; an error is thrown
\* on and answered 500.
createChatTopic(insertError) ==
  /\ chat_topics.seq < MaxTopics
  /\ chat_topics' = IF insertError THEN chat_topics
                    ELSE [seq |-> chat_topics.seq + 1,
                          ids |-> chat_topics.ids \cup {chat_topics.seq + 1}]
  /\ UNCHANGED <<chatVars, storeVars, authVars, ut, ds, dt, hook, events, sessVars, replyVars>>

\* What ChatService.deleteChatTopic returns when the delete reports no error:
\* true, whether or not a row matched.
TopicDeleted(topicId) == TRUE

\* The controller's answer to the service's boolean: 200, or 404 'Chat topic not
\* found'.
DeleteTopicStatus(success) == IF success THEN 200 ELSE 404

\* DELETE /chat/admin/topics/:topicId: .delete().eq('id', topicId); an error is
\* thrown on and answered 500.
deleteChatTopic(topicId, deleteError) ==
  /\ dt' = [called |-> TRUE, topicId |-> topicId, existed |-> (topicId \in chat_topics.ids),
            status |-> IF deleteError THEN 500 ELSE DeleteTopicStatus(TopicDeleted(topicId))]
  /\ chat_topics' = IF deleteError THEN chat_topics
                    ELSE [chat_topics EXCEPT !.ids = @ \ {topicId}]
  /\ UNCHANGED <<chatVars, storeVars, authVars, ut, ds, hook, events, sessVars, replyVars>>

NoTopicDelete == [called |-> FALSE, topicId |-> 0, existed |-> FALSE, status |-> 0]

(***************************************************************************)
(* WhatsApp webhook: verification and event delivery                       *)
(***************************************************************************)
\* config.env.meta.webhookVerifyToken
VerifyToken == "vt"

\* A query parameter the request does not carry (undefined).
Absent == "undefined"

HubModes == {Absent, "subscribe", "unsubscribe"}
HubTokens == {Absent, "", "vt", "VT", "vtx"}
HubChallenges == {Absent, "42"}

\* A verifyWebhook that does not look at the mode.
verifyWebhookAnyMode(mode, token, challenge) ==
  IF token = VerifyToken THEN [verified |-> TRUE, challenge |-> challenge]
  ELSE [verified |-> FALSE, challenge |-> ""]

\* WhatsAppService.verifyWebhook: the challenge, or false.
verifyWebhook(mode, token, challenge) ==
  IF mode = "subscribe" /\ token = VerifyToken
    THEN [verified |-> TRUE, challenge |-> challenge]
    ELSE [verified |-> FALSE, challenge |-> ""]

VerificationFailed == "Verification failed"

\* GET /whatsapp/webhook: WhatsAppController.handleWebhookVerification
handleWebhookVerification(mode, token, challenge) ==
  LET result == verifyWebhook(mode, token, challenge)
  IN  /\ hook' = [called |-> TRUE, mode |-> mode, token |-> token, challenge |-> challenge,
                  status |-> IF result.verified THEN 200 ELSE 403,
                  body |-> IF result.verified THEN result.challenge ELSE VerificationFailed]
      /\ UNCHANGED <<chatVars, storeVars, authVars, ut, ds, chat_topics, dt, events, sessVars, replyVars>>

NoVerification ==
  [called |-> FALSE, mode |-> Absent, token |-> Absent, challenge |-> Absent,
   status |-> 0, body |-> ""]

\* The payloads of an event POST: message changes of a WhatsApp Business Account,
\* an object of another kind, and a body whose entries cannot be walked.
Payloads == {"messages", "other", "malformed"}

\* Whether processWebhookEvent fails on the payload: the walk throws, the catch
\* logs it and returns false.
ProcessingFails(payload) == payload = "malformed"

\* An acknowledgement that waits for the processing and reports its failure.
AckStatusOfOutcome(payload) == IF ProcessingFails(payload) THEN 500 ELSE 200

\* The status handleWebhookEvent answers with: 200 'EVENT_RECEIVED', before the
\* processing has ended.
AckStatus(payload) == 200

\* POST /whatsapp/webhook: WhatsAppController.handleWebhookEvent starts
\* processWebhookEvent without awaiting it and acknowledges.
handleWebhookEvent(payload) ==
  /\ Len(events) < MaxEvents
  /\ events' = Append(events, [payload |-> payload, ack |-> AckStatus(payload),
                               outcome |-> "pending"])
  /\ UNCHANGED <<chatVars, storeVars, authVars, ut, ds, chat_topics, dt, hook, sessVars, replyVars>>

\* WhatsAppService.processWebhookEvent comes to its end for the i-th event: it
\* returns true, or logs the error and returns false.
processWebhookEvent(i) ==
  /\ i \in 1..Len(events)
  /\ events[i].outcome = "pending"
  /\ events' = [events EXCEPT ![i].outcome =
                  IF ProcessingFails(events[i].payload) THEN "logged" ELSE "processed"]
  /\ UNCHANGED <<chatVars, storeVars, authVars, ut, ds, chat_topics, dt, hook, sessVars, replyVars>>

(***************************************************************************)
(* AuthService.requestPasswordReset and requestAdminPasswordReset          *)
(***************************************************************************)
ResetSentMsg == <<"I","f"," ","y","o","u","r"," ","e","m","a","i","l"," ","i","s"," ","r","e","g","i","s","t","e","r","e","d",","," ","y","o","u","'","l","l"," ","r","e","c","e","i","v","e"," ","a"," ","p","a","s","s","w","o","r","d"," ","r","e","s","e","t"," ","l","i","n","k"," ","s","h","o","r","t","l","y">>
AdminResetSentMsg == <<"I","f"," ","y","o","u","r"," ","e","m","a","i","l"," ","i","s"," ","r","e","g","i","s","t","e","r","e","d"," ","a","s"," ","a","n"," ","a","d","m","i","n",","," ","y","o","u","'","l","l"," ","r","e","c","e","i","v","e"," ","a"," ","p","a","s","s","w","o","r","d"," ","r","e","s","e","t"," ","l","i","n","k"," ","s","h","o","r","t","l","y">>
ErrorVerifyingAdminMsg == <<"E","r","r","o","r"," ","v","e","r","i","f","y","i","n","g"," ","a","d","m","i","n"," ","e","m","a","i","l">>

NoReset ==
  [route |-> "", email |-> "", known |-> FALSE, listError |-> FALSE, answer |-> <<>>,
   result |-> OtpResult(FALSE, <<>>, 0)]

\* What either request returns, with the status the controller answers with
\* (result.statusCode || 200). `known` is the outcome of the search through
\* listUsers; `answer` is the provider's answer to resetPasswordForEmail: <<>>
\* for success, Throw for an exception, else the error's message.
ResetRequestResult(email, known, listError, answer, verifyingMsg, sentMsg) ==
  IF email = "" THEN OtpResult(FALSE, EmailRequiredMsg, 400)
  ELSE IF listError THEN OtpResult(FALSE, verifyingMsg, 500)
  ELSE IF ~known THEN OtpResult(TRUE, sentMsg, 200)
  ELSE IF answer = Throw THEN OtpResult(FALSE, UnexpectedErrorMsg, 500)
  ELSE IF answer # <<>> THEN OtpResult(FALSE, answer, 400)
  ELSE OtpResult(TRUE, sentMsg, 200)

\* AuthService.requestPasswordReset(email): userExists is whether some listed
\* user has the email.
requestPasswordReset(email, listError, answer) ==
  LET userExists == email # "" /\ UserIdOf(email) \in DOMAIN auth_users
  IN  /\ pr' = [route |-> "user", email |-> email, known |-> userExists,
                 listError |-> listError, answer |-> answer,
                 result |-> ResetRequestResult(email, userExists, listError, answer,
                                               ErrorVerifyingMsg, ResetSentMsg)]
      /\ UNCHANGED <<chatVars, storeVars, authVars, opVars, sessVars, gh, aa, rp>>

\* AuthService.requestAdminPasswordReset(email): adminUser is a listed user with
\* the email whose metadata marks an admin.
requestAdminPasswordReset(email, listError, answer) ==
  LET adminUser == /\ email # "" /\ UserIdOf(email) \in DOMAIN auth_users
                   /\ auth_users[UserIdOf(email)].is_admin
  IN  /\ pr' = [route |-> "admin", email |-> email, known |-> adminUser,
                 listError |-> listError, answer |-> answer,
                 result |-> ResetRequestResult(email, adminUser, listError, answer,
                                               ErrorVerifyingAdminMsg, AdminResetSentMsg)]
      /\ UNCHANGED <<chatVars, storeVars, authVars, opVars, sessVars, gh, aa, rp>>

(***************************************************************************)
(* WhatsAppService.createPhoneNumber and the controller's                  *)
(* registerPhoneNumber                                                     *)
(***************************************************************************)
\* WhatsAppService.fetchPhoneNumbers: the phone numbers of every WhatsApp Business
\* Account of every business in the answer of GET /me/businesses, read from
\* owned_whatsapp_business_accounts.data[].phone_numbers.data.
fetchPhoneNumbers(businesses) ==
  Join([b \in 1..Len(businesses) |->
          IF "owned_whatsapp_business_accounts" \in DOMAIN businesses[b]
               /\ "data" \in DOMAIN businesses[b].owned_whatsapp_business_accounts
            THEN LET accounts == businesses[b].owned_whatsapp_business_accounts.data
                 IN  Join([a \in 1..Len(accounts) |->
                             IF "phone_numbers" \in DOMAIN accounts[a]
                               THEN accounts[a].phone_numbers.data ELSE <<>>], <<>>)
            ELSE <<>>], <<>>)

\* createPhoneNumber's existingPhoneNumbers: the flatMap of
\* business.owned_whatsapp_business_accounts?.phone_numbers?.data || [].
existingPhoneNumbers(businesses) ==
  Join([b \in 1..Len(businesses) |->
          IF "owned_whatsapp_business_accounts" \in DOMAIN businesses[b]
               /\ "phone_numbers" \in DOMAIN businesses[b].owned_whatsapp_business_accounts
            THEN businesses[b].owned_whatsapp_business_accounts.phone_numbers.data
            ELSE <<>>], <<>>)

\* validatePhoneNumber passes: only digits, and 7 to 15 of them.
validatePhoneNumber(countryCode, phoneNumber) ==
  /\ phoneNumber # <<>>
  /\ \A i \in 1..Len(phoneNumber) :
       phoneNumber[i] \in {"0", "1", "2", "3", "4", "5", "6", "7", "8", "9"}
  /\ Len(phoneNumber) >= 7 /\ Len(phoneNumber) <= 15

\* WhatsAppService.createPhoneNumber: whether the creation request was sent and
\* whether the call returned an id (else it threw).
createPhoneNumber(businessesError, businesses, countryCode, phoneNumber, postError) ==
  LET existing == existingPhoneNumbers(businesses)
      wabaAccounts ==
        Join([b \in 1..Len(businesses) |->
                IF "owned_whatsapp_business_accounts" \in DOMAIN businesses[b]
                     /\ "data" \in DOMAIN businesses[b].owned_whatsapp_business_accounts
                  THEN businesses[b].owned_whatsapp_business_accounts.data ELSE <<>>], <<>>)
  IN  IF businessesError THEN [sent |-> FALSE, ok |-> FALSE]
      ELSE IF Len(existing) >= 2 THEN [sent |-> FALSE, ok |-> FALSE]
      ELSE IF \E i \in 1..Len(existing) :
                existing[i].display_phone_number = <<"+">> \o countryCode \o phoneNumber
             THEN [sent |-> FALSE, ok |-> FALSE]
      ELSE IF Len(wabaAccounts) = 0 THEN [sent |-> FALSE, ok |-> FALSE]
      ELSE IF ~validatePhoneNumber(countryCode, phoneNumber) THEN [sent |-> FALSE, ok |-> FALSE]
      ELSE [sent |-> TRUE, ok |-> ~postError]

\* POST /whatsapp/register-phone-number: 401 without a user, 400 without a
\* field, 404 without a stored WhatsApp account, 400 when createPhoneNumber or
\* the request for the verification code throws, else 200.
registerPhoneNumber(userId, countryCode, phoneNumber, account, businessesError, businesses, postError, codeError) ==
  LET created == createPhoneNumber(businessesError, businesses, countryCode, phoneNumber, postError)
      called == userId # "" /\ countryCode # <<>> /\ phoneNumber # <<>> /\ account
  IN  /\ rp' = [businesses |-> IF called /\ ~businessesError THEN businesses ELSE <<>>,
                 display |-> IF called THEN <<"+">> \o countryCode \o phoneNumber ELSE <<>>,
                 sent |-> called /\ created.sent,
                 status |-> IF userId = "" THEN 401
                            ELSE IF countryCode = <<>> \/ phoneNumber = <<>> THEN 400
                            ELSE IF ~account THEN 404
                            ELSE IF ~created.ok \/ codeError THEN 400
                            ELSE 200]
      /\ UNCHANGED <<chatVars, storeVars, authVars, opVars, sessVars, gh, pr, aa>>

(***************************************************************************)
(* ChatController.getChatHistory                                           *)
(***************************************************************************)
AiLinePrefix == <<"A","I",":"," ">>

NoHistoryRequest ==
  [status |-> 0, sessionId |-> 0, queryError |-> FALSE, stored |-> <<>>, messages |-> <<>>]

\* The loop over history.split('\n') from index i (1-based here): a trimmed line
\* that starts with 'User: ' opens an entry; the next trimmed line gives its ai
\* text when it starts with 'AI: ', and is skipped when that text is not empty.
RECURSIVE historyLoop(_, _)
historyLoop(historyLines, i) ==
  IF i > Len(historyLines) THEN <<>>
  ELSE LET line == Trim(historyLines[i])
       IN  IF StartsWith(line, UserPrefix)
             THEN LET userMessage == Substring(line, 6, Len(line))
                      nextLine == IF i + 1 <= Len(historyLines)
                                    THEN Trim(historyLines[i + 1]) ELSE <<>>
                      aiLine == IF i + 1 <= Len(historyLines) /\ StartsWith(nextLine, AiLinePrefix)
                                  THEN Substring(nextLine, 4, Len(nextLine)) ELSE <<>>
                  IN  <<[user |-> userMessage, ai |-> aiLine]>>
                        \o historyLoop(historyLines, IF aiLine # <<>> THEN i + 2 ELSE i + 1)
             ELSE historyLoop(historyLines, i + 1)

\* GET /chat/session/:sessionId/history: 400 without a session id (0 here),
\* else the transcript of loadChatHistory parsed back into { user, ai } entries.
getChatHistory(sessionId, queryError) ==
  /\ gh' = IF sessionId = 0
             THEN [NoHistoryRequest EXCEPT !.status = 400]
             ELSE [status |-> 200, sessionId |-> sessionId, queryError |-> queryError,
                   stored |-> SessionMessages(sessionId),
                   messages |-> historyLoop(SplitOn(loadChatHistory(sessionId, queryError), "\n"), 1)]
  /\ UNCHANGED <<chatVars, storeVars, authVars, opVars, sessVars, pr, aa, rp>>

InitOps ==
  /\ ut = IdleRetitle
  /\ ds = IdleSessionDelete
  /\ chat_topics = NoTopics
  /\ dt = NoTopicDelete
  /\ hook = NoVerification
  /\ events = <<>>
  /\ client = ""
  /\ al = IdleAdminLogin
  /\ gh = NoHistoryRequest
  /\ pr = NoReset
  /\ aa = NoAdminRequest
  /\ rp = [businesses |-> <<>>, display |-> <<>>, sent |-> FALSE, status |-> 0]

(***************************************************************************)
(* Specifications                                                          *)
(***************************************************************************)
InitChatTables ==
  /\ InitOps
  /\ chat_sessions = <<>>
  /\ chat_messages = <<>>
  /\ now = 1
  /\ sessionSeq = 0
  /\ pm = [c \in CallIds |-> IdleCall]
  /\ gt = IdleTitle

InitAuth ==
  /\ auth_users = <<>>
  /\ users = <<>>
  /\ req = NoRequest
  /\ otp = NoOtp

InitIngestor ==
  /\ InitAuth
  /\ docSeq = 0
  /\ rowSeq = 0
  /\ tmp = {}
  /\ pd = [u \in UploadIds |-> IdleUpload]
  /\ dd = IdleDelete

\* The chat runs against a vector store that is empty, holds one chunk, or holds
\* more chunks of each category than a search returns.
InitChat ==
  /\ InitChatTables
  /\ InitIngestor
  /\ \E n \in {0, 1, 2 * (similaritySearchResults + ExtraRows)} :
       /\ documents = SeedChunks(n)
       /\ document_metadata = SeedMetadata(n)

NextChat ==
  \/ \E u \in UserIds, t \in {<<>>}, e \in BOOLEAN : createChatSession(u, t, e)
  \/ \E c \in {1}, u \in {"u1"}, sid \in SessionIds, m \in Messages, cat \in Categories :
       pmCall(c, u, sid, m, cat)
  \/ \E c \in {1}, e \in BOOLEAN : pmLoadHistory(c, e)
  \/ \E c \in {1}, e \in BOOLEAN, q \in SearchQueries : pmGenerateSearchQuery(c, e, q)
  \/ \E c \in {1}, e \in BOOLEAN : pmSimilaritySearch(c, e)
  \/ \E c \in {1}, e \in BOOLEAN, r \in ModelResponses : pmInvoke(c, e, r)
  \/ \E c \in {1}, e \in BOOLEAN : pmInsert(c, e)
  \/ \E c \in {1}, e \in BOOLEAN : pmUpdate(c, e)
  \/ \E c \in {1} : pmDone(c)

SpecChat == InitChat /\ [][NextChat]_vars

InitTitle ==
  /\ InitChatTables
  /\ InitIngestor
  /\ documents = {}
  /\ document_metadata = <<>>

NextTitle ==
  \/ \E u \in UserIds, t \in {<<>>, <<"T">>}, e \in BOOLEAN : createChatSession(u, t, e)
  \/ \E u \in UserIds, sid \in SessionIds : gtCall(u, sid)
  \/ \E e \in BOOLEAN : gtSelect(e)
  \/ \E e \in BOOLEAN, raw \in ModelTitles : gtInvoke(e, raw)
  \/ \E e \in BOOLEAN : gtUpdate(e)
  \/ gtDone

SpecTitle == InitTitle /\ [][NextTitle]_vars

InitDoc ==
  /\ InitChatTables
  /\ InitIngestor
  /\ documents = {}
  /\ document_metadata = <<>>

NextDoc ==
  \/ \E u \in {1}, name \in FileNames, cat \in Categories, w \in BOOLEAN :
       pdCall(u, name, <<"S">>, cat, w)
  \/ \E u \in {1}, e \in BOOLEAN : pdLoad(u, e)
  \/ \E u \in {1}, e \in BOOLEAN, n \in 0..MaxChunks : pdSplit(u, e, n)
  \/ \E u \in {1}, e \in BOOLEAN : pdInsertMetadata(u, e)
  \/ \E u \in {1}, e \in BOOLEAN : pdAddDocuments(u, e)
  \/ \E u \in {1} : pdDone(u)
  \/ \E d \in 0..MaxDocs : ddCall(d)
  \/ \E e \in BOOLEAN : ddDeleteChunks(e)
  \/ \E e \in BOOLEAN : ddDeleteMetadata(e)
  \/ ddDone

SpecDoc == InitDoc /\ [][NextDoc]_vars

InitAccess ==
  /\ InitChatTables
  /\ InitIngestor
  /\ documents = {}
  /\ document_metadata = <<>>

NextAccess ==
  \/ \E e \in Emails, err \in BOOLEAN : signUp(e, err)
  \/ \E e \in Emails, ok \in BOOLEAN, err \in BOOLEAN : verifyOtp(e, ok, err)
  \/ \E e \in Emails, s \in {"", "s3cret", "guess"}, perr \in BOOLEAN, uerr \in BOOLEAN :
       signUpAdmin(e, s, perr, uerr)
  \/ \E h \in Headers, p \in {"ok", "error", "throw"}, err \in BOOLEAN : adminRequest(h, p, err)

SpecAccess == InitAccess /\ [][NextAccess]_vars

\* Both admin-only middleware chains, over accounts that sign up, are made
\* admin at sign-up or are recorded as admin at an admin login.
NextAdmin ==
  \/ \E e \in Emails : signUp(e, FALSE)
  \/ \E e \in Emails, ok \in BOOLEAN : verifyOtp(e, ok, FALSE)
  \/ \E e \in Emails, uerr \in BOOLEAN : signUpAdmin(e, "s3cret", FALSE, uerr)
  \/ \E e \in Emails : adminLogin(e, TRUE)
  \/ \E a \in BOOLEAN : adminLoginRecord(a, FALSE)
  \/ \E h \in Headers, p \in {"ok", "error", "throw"}, err \in BOOLEAN : adminRequest(h, p, err)
  \/ \E h \in Headers, p \in {"ok", "error"} : usersRequest(h, p)

SpecAdmin == InitAccess /\ [][NextAdmin]_vars

\* Everything that writes the users table, and the admin check that reads it.
NextRole ==
  \/ \E e \in Emails, err \in BOOLEAN : signUp(e, err)
  \/ \E e \in Emails, ok \in BOOLEAN, err \in BOOLEAN : verifyOtp(e, ok, err)
  \/ \E e \in Emails, s \in {"", "s3cret", "guess"}, perr \in BOOLEAN, uerr \in BOOLEAN :
       signUpAdmin(e, s, perr, uerr)
  \/ \E e \in Emails, ok \in BOOLEAN : adminLogin(e, ok)
  \/ \E a \in BOOLEAN, uerr \in BOOLEAN : adminLoginRecord(a, uerr)
  \/ \E e \in Emails, ok \in BOOLEAN, uerr \in BOOLEAN : login(e, ok, uerr)
  \/ \E t \in {<<"1">>, <<"2">>, <<"9">>}, perr \in BOOLEAN, uerr \in BOOLEAN :
       getCurrentUser(t, perr, uerr)
  \/ \E e \in Emails, perr \in BOOLEAN, uerr \in BOOLEAN : exchangeCodeForSession(e, perr, uerr)
  \/ \E h \in Headers : adminRequest(h, "ok", FALSE)

SpecRole == InitAccess /\ [][NextRole]_vars

\* The requests that sign in or out on the module-level store client.
NextClient ==
  \/ \E e \in Emails, err \in BOOLEAN : signUp(e, err)
  \/ \E e \in Emails, ok \in BOOLEAN, err \in BOOLEAN : verifyOtp(e, ok, err)
  \/ \E e \in Emails, s \in {"", "s3cret"} : signUpAdmin(e, s, FALSE, FALSE)
  \/ \E e \in Emails, ok \in BOOLEAN : login(e, ok, FALSE)
  \/ \E e \in Emails, ok \in BOOLEAN : adminLogin(e, ok)
  \/ \E a \in BOOLEAN, uerr \in BOOLEAN : adminLoginRecord(a, uerr)
  \/ \E err \in BOOLEAN : signOut(err)

SpecClient == InitAccess /\ [][NextClient]_vars

\* Messages and answers with line breaks and transcript-like lines, stored by
\* processMessage and read back through the history endpoint.
HistoryTexts ==
  { <<"h","i">>,
    <<"a","\n","b">>,
    <<"a","\n","U","s","e","r",":"," ","b">>,
    <<"a","\n","A","I",":"," ","b">> }

NextHistory ==
  \/ createChatSession("u1", <<>>, FALSE)
  \/ \E m \in HistoryTexts : 1 \in DOMAIN chat_sessions /\ pmCall(1, "u1", 1, m, "")
  \/ pmLoadHistory(1, FALSE)
  \/ \E q \in SearchQueries : pmGenerateSearchQuery(1, FALSE, q)
  \/ pmSimilaritySearch(1, FALSE)
  \/ \E r \in HistoryTexts : pmInvoke(1, FALSE, r)
  \/ pmInsert(1, FALSE)
  \/ pmUpdate(1, FALSE)
  \/ pmDone(1)
  \/ \E sid \in 0..MaxSessions + 1, e \in BOOLEAN : getChatHistory(sid, e)

SpecHistory == InitTitle /\ [][NextHistory]_vars

\* Password-reset requests for addresses that are registered, registered as an
\* admin, or unknown; the provider's mail call may succeed, fail or throw.
NextReset ==
  \/ \E e \in Emails, err \in BOOLEAN : signUp(e, err)
  \/ \E e \in Emails, s \in {"", "s3cret"} : signUpAdmin(e, s, FALSE, FALSE)
  \/ \E e \in Emails \cup {""}, le \in BOOLEAN, a \in {<<>>, ProviderRateLimit, Throw} :
       requestPasswordReset(e, le, a)
  \/ \E e \in Emails \cup {""}, le \in BOOLEAN, a \in {<<>>, ProviderRateLimit, Throw} :
       requestAdminPasswordReset(e, le, a)

SpecReset == InitAccess /\ [][NextReset]_vars

\* Admin registrations and admin password resets with right, wrong and missing
\* secrets, for tokens of admins, of other users and of nobody.
NextSecret ==
  \/ \E e \in Emails : signUp(e, FALSE)
  \/ \E e \in Emails : verifyOtp(e, TRUE, FALSE)
  \/ \E e \in Emails \cup {""}, s \in {"", "s3cret", "guess"}, perr \in BOOLEAN :
       registerAdmin(e, s, perr, FALSE)
  \/ \E n \in {"", "n"}, t \in {<<>>, <<"1">>, <<"2">>, <<"9">>}, s \in {"", "s3cret", "guess"},
        terr \in BOOLEAN, uerr \in BOOLEAN :
       resetAdminPassword(n, t, s, terr, uerr)

SpecSecret == InitAccess /\ [][NextSecret]_vars

\* Phone-number registrations against answers of GET /me/businesses: no
\* business account, or one or two that hold some numbers; the numbers may also
\* be listed beside the accounts, where createPhoneNumber looks for them.
PhoneNumbers ==
  { <<"5","5","5","0","1","0","0">>, <<"5","5","5","0","1","0","1">>, <<"5","5","5","0","1","0","2">> }

PhoneListings ==
  { <<>> } \cup { <<[id |-> "n", display_phone_number |-> <<"+","1">> \o n]>> : n \in PhoneNumbers }
    \cup { <<[id |-> "n", display_phone_number |-> <<"+","1","5","5","5","0","1","0","0">>],
              [id |-> "m", display_phone_number |-> <<"+","1">> \o m]>> :
              m \in PhoneNumbers \ {<<"5","5","5","0","1","0","0">>} }

BusinessesAnswers ==
  { <<>>, <<[id |-> "b1"]>> }
    \cup { <<[id |-> "b1", owned_whatsapp_business_accounts |->
                 [data |-> <<[id |-> "w1", phone_numbers |-> [data |-> held]]>>]]>> :
            held \in PhoneListings }
    \cup { <<[id |-> "b1", owned_whatsapp_business_accounts |->
                 [data |-> <<[id |-> "w1", phone_numbers |->
                                [data |-> <<[id |-> "n", display_phone_number |-> <<"+","1">> \o n]>>]],
                             [id |-> "w2", phone_numbers |->
                                [data |-> <<[id |-> "m", display_phone_number |-> <<"+","1">> \o m]>>]]>>]]>> :
            n \in PhoneNumbers, m \in PhoneNumbers }
    \cup { <<[id |-> "b1", owned_whatsapp_business_accounts |->
                 [data |-> <<[id |-> "w1"]>>, phone_numbers |-> [data |-> listed]]]>> :
            listed \in PhoneListings }

NextPhone ==
  \E u \in {"", "u1"}, cc \in {<<>>, <<"1">>},
     n \in {<<>>, <<"5","5","5">>} \cup PhoneNumbers,
     account \in BOOLEAN, berr \in BOOLEAN, b \in BusinessesAnswers,
     perr \in BOOLEAN, cerr \in BOOLEAN :
    registerPhoneNumber(u, cc, n, account, berr, b, perr, cerr)

SpecPhone == InitAccess /\ [][NextPhone]_vars

NextOtp ==
  \/ \E e \in Emails, err \in BOOLEAN : signUp(e, err)
  \/ \E e \in Emails, ok \in BOOLEAN, err \in BOOLEAN : verifyOtp(e, ok, err)
  \/ \E e \in Emails \cup {""}, err \in BOOLEAN :
       \E a \in IF e # "" /\ UserIdOf(e) \in DOMAIN auth_users
                  THEN ResendAnswers(auth_users[UserIdOf(e)]) ELSE {<<>>} :
         resendOtp(e, err, a)

SpecOtp == InitAccess /\ [][NextOtp]_vars

\* No request on a session is in flight.
Quiet == pm[1].pc = "idle" /\ gt.pc = "idle" /\ ut.pc = "idle" /\ ds.pc = "idle"

\* The four write paths on a chat session, by its owner and by another user,
\* one request at a time: a run of these is a run of the server under any
\* interleaving of requests.  The session row's delete succeeds here, so that
\* a session is emptied once and the clock stays bounded.
NextSession ==
  \/ \E u \in UserIds, e \in BOOLEAN : createChatSession(u, <<>>, e)
  \/ Quiet /\ \E u \in UserIds, m \in Messages : pmCall(1, u, 1, m, "")
  \/ pmLoadHistory(1, FALSE)
  \/ \E q \in SearchQueries : pmGenerateSearchQuery(1, FALSE, q)
  \/ pmSimilaritySearch(1, FALSE)
  \/ \E r \in ModelResponses : pmInvoke(1, FALSE, r)
  \/ \E e \in BOOLEAN : pmInsert(1, e)
  \/ \E e \in BOOLEAN : pmUpdate(1, e)
  \/ pmDone(1)
  \/ Quiet /\ \E u \in UserIds : gtCall(u, 1)
  \/ \E e \in BOOLEAN : gtSelect(e)
  \/ gtInvoke(FALSE, <<"T">>)
  \/ \E e \in BOOLEAN : gtUpdate(e)
  \/ gtDone
  \/ Quiet /\ \E u \in UserIds, a \in BOOLEAN : utCall(u, a, 1, <<"R">>)
  \/ \E e \in BOOLEAN : utSelect(e)
  \/ \E e \in BOOLEAN : utUpdate(e)
  \/ utDone
  \/ Quiet /\ \E u \in UserIds, a \in BOOLEAN : dsCall(u, a, 1)
  \/ \E e \in BOOLEAN : dsSelect(e)
  \/ \E e \in BOOLEAN : dsDeleteMessages(e)
  \/ dsDeleteSession(FALSE)
  \/ dsDone

SpecSession == InitTitle /\ [][NextSession]_vars

\* Retitling and deleting sessions, one's own, another user's and missing ones.
NextOwner ==
  \/ \E u \in UserIds, e \in BOOLEAN : createChatSession(u, <<>>, e)
  \/ \E u \in UserIds, a \in BOOLEAN, sid \in SessionIds : utCall(u, a, sid, <<"R">>)
  \/ \E e \in BOOLEAN : utSelect(e)
  \/ \E e \in BOOLEAN : utUpdate(e)
  \/ utDone
  \/ \E u \in UserIds, a \in BOOLEAN, sid \in SessionIds : dsCall(u, a, sid)
  \/ \E e \in BOOLEAN : dsSelect(e)
  \/ \E e \in BOOLEAN : dsDeleteMessages(e)
  \/ \E e \in BOOLEAN : dsDeleteSession(e)
  \/ dsDone

SpecOwner == InitTitle /\ [][NextOwner]_vars

\* A message sent to an existing session by its owner while the owner deletes
\* the session, in every interleaving of the two requests' awaits; no store
\* call fails.
NextRace ==
  \/ createChatSession("u1", <<>>, FALSE)
  \/ \E c \in CallIds, m \in Messages :
       1 \in DOMAIN chat_sessions /\ pmCall(c, "u1", 1, m, "")
  \/ \E c \in CallIds : pmLoadHistory(c, FALSE)
  \/ \E c \in CallIds, q \in SearchQueries : pmGenerateSearchQuery(c, FALSE, q)
  \/ \E c \in CallIds : pmSimilaritySearch(c, FALSE)
  \/ \E c \in CallIds, r \in ModelResponses : pmInvoke(c, FALSE, r)
  \/ \E c \in CallIds : pmInsert(c, FALSE)
  \/ \E c \in CallIds : pmUpdate(c, FALSE)
  \/ \E c \in CallIds : pmDone(c)
  \/ dsCall("u1", FALSE, 1)
  \/ dsSelect(FALSE)
  \/ dsDeleteMessages(FALSE)
  \/ dsDeleteSession(FALSE)
  \/ dsDone

SpecRace == InitTitle /\ [][NextRace]_vars

\* Messages sent to one existing session by two requests whose awaits
\* interleave freely; the save's insert and update may fail.
NextPair ==
  \/ createChatSession("u1", <<>>, FALSE)
  \/ \E c \in CallIds, m \in Messages :
       1 \in DOMAIN chat_sessions /\ pmCall(c, "u1", 1, m, "")
  \/ \E c \in CallIds : pmLoadHistory(c, FALSE)
  \/ \E c \in CallIds, q \in SearchQueries : pmGenerateSearchQuery(c, FALSE, q)
  \/ \E c \in CallIds : pmSimilaritySearch(c, FALSE)
  \/ \E c \in CallIds, r \in ModelResponses : pmInvoke(c, FALSE, r)
  \/ \E c \in CallIds, e \in BOOLEAN : pmInsert(c, e)
  \/ \E c \in CallIds, e \in BOOLEAN : pmUpdate(c, e)
  \/ \E c \in CallIds : pmDone(c)

SpecPair == InitTitle /\ [][NextPair]_vars

\* Deleting topics and documents, stored ones and ones the store never held.
NextTopic ==
  \/ \E e \in BOOLEAN : createChatTopic(e)
  \/ \E t \in TopicIds, e \in BOOLEAN : deleteChatTopic(t, e)
  \/ \E d \in 0..MaxDocs : ddCall(d)
  \/ \E e \in BOOLEAN : ddDeleteChunks(e)
  \/ \E e \in BOOLEAN : ddDeleteMetadata(e)
  \/ ddDone

SpecTopic == InitDoc /\ [][NextTopic]_vars

\* A chat message and a document upload with every step able to fail.
NextError ==
  \/ \E m \in Messages : pmCall(1, "u1", 1, m, "")
  \/ \E e \in BOOLEAN : pmLoadHistory(1, e)
  \/ \E e \in BOOLEAN, q \in SearchQueries : pmGenerateSearchQuery(1, e, q)
  \/ \E e \in BOOLEAN : pmSimilaritySearch(1, e)
  \/ \E e \in BOOLEAN, r \in ModelResponses : pmInvoke(1, e, r)
  \/ \E e \in BOOLEAN : pmInsert(1, e)
  \/ \E e \in BOOLEAN : pmUpdate(1, e)
  \/ pmDone(1)
  \/ \E name \in FileNames, w \in BOOLEAN : pdCall(1, name, <<"S">>, "", w)
  \/ \E e \in BOOLEAN : pdLoad(1, e)
  \/ \E e \in BOOLEAN : pdSplit(1, e, 1)
  \/ \E e \in BOOLEAN : pdInsertMetadata(1, e)
  \/ \E e \in BOOLEAN : pdAddDocuments(1, e)
  \/ pdDone(1)

SpecError == InitDoc /\ [][NextError]_vars

NextHook ==
  \/ \E m \in HubModes, t \in HubTokens, c \in HubChallenges : handleWebhookVerification(m, t, c)
  \/ \E p \in Payloads : handleWebhookEvent(p)
  \/ \E i \in 1..MaxEvents : processWebhookEvent(i)

SpecHook == InitDoc /\ [][NextHook]_vars

(***************************************************************************)
(* Properties                                                              *)
(***************************************************************************)
\* The processMessage calls that have passed the history load.
HistoryLoaded(c) == pm[c].pc \notin {"idle", "loadHistory"}

\* The processMessage calls whose similarity search has answered.
Searched(c) ==
  \/ pm[c].pc \in {"invoke", "insert", "update", "returned"}
  \/ pm[c].pc = "thrown" /\ pm[c].failedAt \in {"invoke", "insert", "update"}

\* C1: for a session with zero stored messages, processMessage uses the fixed
\* text 'No previous conversation history.' (never the empty string) as the
\* history of both the query-rewrite prompt and the answer prompt.
C1_EmptyHistoryPlaceholder ==
  \A c \in CallIds :
    (HistoryLoaded(c) /\ pm[c].emptyAtLoad) =>
      /\ pm[c].history = NoHistory
      /\ pm[c].history # <<>>
      /\ pm[c].queryPrompt.sent => pm[c].queryPrompt.history = NoHistory
      /\ pm[c].answerPrompt.sent => pm[c].answerPrompt.history = NoHistory

\* A call on a session without messages, whose history query succeeded, has sent
\* both prompts.
C1_Witness ==
  \E c \in CallIds :
    /\ pm[c].emptyAtLoad /\ ~pm[c].historyError
    /\ pm[c].queryPrompt.sent /\ pm[c].answerPrompt.sent
    /\ pm[c].answerPrompt.history = NoHistory

\* C2: when the similarity search returns zero documents, the returned sources
\* is undefined and the context of the answer prompt is the fixed text
\* 'No specific information available on this topic.'.
C2_EmptyRetrieval ==
  \A c \in CallIds :
    (Searched(c) /\ Len(pm[c].docs) = 0) =>
      /\ pm[c].answerPrompt.sent => pm[c].answerPrompt.context = NoContext
      /\ pm[c].pc = "returned" => pm[c].result.sources = Undefined

\* A call whose search found nothing has returned.
C2_Witness ==
  \E c \in CallIds :
    /\ pm[c].pc = "returned" /\ pm[c].docs = <<>>
    /\ pm[c].answerPrompt.context = NoContext
    /\ ~pm[c].result.sources.defined

\* C8: the sources of a returned call, when present, hold one snippet per
\* retrieved document and never more than K = similaritySearchResults,
\* with a category filter and without one.
C8_SourcesWithinK ==
  \A c \in CallIds :
    /\ Searched(c) => Len(pm[c].docs) <= similaritySearchResults
    /\ (pm[c].pc = "returned" /\ pm[c].result.sources.defined) =>
         /\ Len(pm[c].result.sources.items) = Len(pm[c].docs)
         /\ Len(pm[c].result.sources.items) <= similaritySearchResults
         /\ \A i \in 1..Len(pm[c].docs) :
              pm[c].result.sources.items[i].title = pm[c].docs[i].title

\* A filtered call has returned K sources from a store that holds more than K
\* chunks of its category.
C8_Witness ==
  \E c \in CallIds :
    /\ pm[c].pc = "returned" /\ pm[c].category # ""
    /\ pm[c].result.sources.defined
    /\ Len(pm[c].result.sources.items) = similaritySearchResults
    /\ Cardinality({ r \in documents : r.category = pm[c].category }) > similaritySearchResults

\* The call c has ended in an error and has written no chat_messages row.
Aborted(c) ==
  /\ pm[c].pc = "thrown"
  /\ ~pm[c].inserted
  /\ Len(chat_messages) = pm[c].rowsAtCall

\* No step after the failed one has run.
NoLaterStep(c) ==
  /\ pm[c].failedAt = "generateSearchQuery" =>
       pm[c].searchQuery = "" /\ pm[c].docs = <<>> /\ ~pm[c].answerPrompt.sent
  /\ pm[c].failedAt = "similaritySearch" => pm[c].docs = <<>> /\ ~pm[c].answerPrompt.sent
  /\ pm[c].failedAt \in {"generateSearchQuery", "similaritySearch", "invoke"} =>
       pm[c].response = <<>>

\* C9 as stated: any failure in the steps before the save (history load, query
\* rewrite, similarity search, context and prompt, model call) aborts the call
\* with an error: no later step runs and no pair is persisted.
C9_AnyFailureAborts ==
  \A c \in CallIds :
    (pm[c].historyError
       \/ pm[c].failedAt \in {"generateSearchQuery", "similaritySearch", "invoke"}) =>
      Aborted(c) /\ NoLaterStep(c) /\ (pm[c].historyError => ~pm[c].queryPrompt.sent)

\* C9 amended: a failure of the query rewrite, of the similarity search or of the
\* model call (and of the chat_messages insert) aborts the call with an error, no
\* later step runs and no pair is persisted; an error of the history query does
\* not abort: the no-history text stands in for the history and the call goes on.
C9_FailureAfterHistoryAborts ==
  \A c \in CallIds :
    /\ pm[c].failedAt \in {"generateSearchQuery", "similaritySearch", "invoke", "insert"} =>
         Aborted(c) /\ NoLaterStep(c)
    /\ pm[c].historyError =>
         /\ pm[c].history = NoHistory
         /\ pm[c].pc = "thrown" =>
              pm[c].failedAt \in {"generateSearchQuery", "similaritySearch", "invoke", "insert"}

\* A call whose history query failed went on to the model call, which failed: the
\* call has ended in an error and nothing was stored.
C9_Witness ==
  \E c \in CallIds :
    /\ pm[c].historyError /\ pm[c].queryPrompt.sent
    /\ pm[c].failedAt = "invoke" /\ pm[c].pc = "thrown"
    /\ Len(chat_messages) = pm[c].rowsAtCall

\* The chat_messages row the call c inserts.
StoredPair(c, row) ==
  /\ row.session_id = pm[c].sessionId
  /\ row.user_id = pm[c].userId
  /\ row.user_message = pm[c].message
  /\ row.ai_response = pm[c].response

\* C10: when the chat_messages insert succeeds and the last_message_at update
\* fails, the call still returns the response and the message stays stored.
C10_UpdateFailureSwallowed ==
  \A c \in CallIds :
    /\ pm[c].failedAt # "update"
    /\ pm[c].updateError =>
         /\ pm[c].pc = "returned"
         /\ pm[c].result.response = pm[c].response
         /\ pm[c].inserted
         /\ Len(chat_messages) = pm[c].rowsAtCall + 1
         /\ StoredPair(c, chat_messages[Len(chat_messages)])

\* The update of an existing session failed after the insert, and the call
\* has returned.
C10_Witness ==
  \E c \in CallIds :
    /\ pm[c].updateError /\ pm[c].pc = "returned" /\ pm[c].inserted
    /\ pm[c].sessionId \in DOMAIN chat_sessions
    /\ pm[c].result.response = <<"o","k">>
    /\ \E i \in 1..Len(chat_messages) : StoredPair(c, chat_messages[i])

\* C3: the title generateChatTitle returns and stores never exceeds 50
\* characters: a trimmed model output longer than 50 becomes its first 47
\* characters followed by '...', and one of 50 or fewer is kept unchanged.
C3_TitleAtMostFifty ==
  /\ gt.invoked =>
       LET trimmed == Trim(gt.raw)
       IN  /\ Len(gt.title) <= 50
           /\ Len(trimmed) > 50 => gt.title = SubSeq(trimmed, 1, 47) \o <<".", ".", ".">>
           /\ Len(trimmed) <= 50 => gt.title = trimmed
  /\ gt.pc = "returned" =>
       /\ Len(gt.result) <= 50
       /\ gt.invoked => gt.result = gt.title
  /\ gt.written => chat_sessions[gt.sessionId].title = gt.title

\* A model output longer than 50 after trimming was cut, stored and returned.
C3_Witness ==
  /\ gt.pc = "returned" /\ gt.written
  /\ Len(Trim(gt.raw)) > 50
  /\ Len(gt.result) = 50
  /\ chat_sessions[gt.sessionId].title = gt.result

\* The vector rows whose documentId metadata is id.
ChunksOf(id) == { r \in documents : r.documentId = id }

\* C4 as stated: once deleteDocument(id) has answered, the document_metadata row
\* with that id and every vector row whose documentId is id are absent.
C4_DeletedFromBothStores ==
  dd.pc = "returned" =>
    /\ dd.documentId \notin DOMAIN document_metadata
    /\ ChunksOf(dd.documentId) = {}

\* C4 amended: when deleteDocument(id) answers with success, the metadata row is
\* absent and so is every vector row of id that was stored when the call began;
\* it answers with failure exactly when one of the two deletes failed, and a
\* failed chunk delete leaves the metadata row untouched.
C4_DeletedWhenSucceeded ==
  dd.pc = "returned" =>
    /\ dd.success =>
         /\ dd.documentId \notin DOMAIN document_metadata
         /\ \A r \in ChunksOf(dd.documentId) : r.id \notin dd.chunksAtCall
    /\ dd.success <=> dd.failedAt = ""
    /\ dd.failedAt = "metadata" =>
         \A r \in ChunksOf(dd.documentId) : r.id \notin dd.chunksAtCall

\* A document with stored chunks was deleted with success.
C4_Witness ==
  /\ dd.pc = "returned" /\ dd.success
  /\ dd.chunksAtCall # {}
  /\ dd.documentId \notin DOMAIN document_metadata
  /\ ChunksOf(dd.documentId) = {}

\* How often x occurs in the array arr.
Count(arr, x) == Cardinality({ i \in 1..Len(arr) : arr[i] = x })

\* C7: after a successful upload (one that returns a documentId) with category c,
\* the categories endpoint lists c exactly once while the document is stored,
\* however many documents share that category.
C7_CategoryListedOnce ==
  /\ \A u \in UploadIds :
       (pd[u].pc = "returned" /\ pd[u].success
          /\ pd[u].documentId \in DOMAIN document_metadata) =>
         Count(getCategories, IF pd[u].category = "" THEN "general" ELSE pd[u].category) = 1
  /\ \A d \in DOMAIN document_metadata :
       Count(getCategories, document_metadata[d].category) = 1

\* An upload has succeeded whose category another stored document shares.
C7_Witness ==
  \E u \in UploadIds :
    /\ pd[u].pc = "returned" /\ pd[u].success /\ pd[u].category = "sleep"
    /\ Cardinality({ d \in DOMAIN document_metadata :
                       document_metadata[d].category = "sleep" }) >= 2
    /\ Count(getCategories, "sleep") = 1

\* The last request carried a valid token of a user who is no admin: neither by
\* the token's claim nor by the role of a users row.
ValidNonAdmin ==
  req.user # "" /\ ~req.claimAdmin /\ req.tableRole # "admin"

\* C5 as stated: a request with a valid token whose user is not an admin, sent to
\* an admin-only endpoint, is always answered with 403.
C5_NonAdminAlways403 ==
  ValidNonAdmin => req.status = 403

\* C5 amended: such a request never reaches the handler and is never answered
\* with 401: it is answered with 403 when the users lookup returns the user's
\* row, and with 500 when the lookup fails or finds no row.
C5_NonAdmin403Or500 ==
  ValidNonAdmin =>
    /\ ~req.handler
    /\ req.status \in {403, 500}
    /\ req.status = 403 <=> (~req.lookupError /\ req.tableRole # "")

\* A confirmed user with role 'user' was answered with 403.
C5_Witness ==
  /\ ValidNonAdmin /\ req.tableRole = "user" /\ req.status = 403
  /\ auth_users[req.user].confirmed

\* resendOtp got as far as the provider's resend.
ResendReached == otp.email # "" /\ ~otp.listError /\ otp.known

C11_OnlyOwnerWrites ==
  /\ \A c \in CallIds :
       pm[c].inserted => OwnerOf(pm[c].sessionId) \in {"", pm[c].userId}
  /\ \A i \in 1..Len(chat_messages) :
       OwnerOf(chat_messages[i].session_id) \in {"", chat_messages[i].user_id}
  /\ gt.written => OwnerOf(gt.sessionId) \in {"", gt.userId}
  /\ ut.written => ut.ownerAtCall \in {"", ut.userId}
  /\ (ds.deletedMessages \/ ds.deleted) => ds.ownerAtCall \in {"", ds.userId}

\* C12: processDocument on a file whose extension is none of .pdf, .docx,
\* .txt, .md, .html returns success false with the message 'Unsupported file
\* format: ' followed by the extension, and has inserted no document_metadata
\* row and no vector row (the temporary file having been written).
C12_UnsupportedRefused ==
  \A u \in UploadIds :
    (pd[u].pc = "returned" /\ ~(pd[u].ext = Pdf \/ pd[u].ext = Docx \/ pd[u].ext \in TextFamily)) =>
      /\ ~pd[u].success
      /\ pd[u].documentId = 0
      /\ pd[u].nChunks = 0
      /\ pd[u].failedAt \in {"", "write"}
      /\ pd[u].failedAt = "" => pd[u].message = UnsupportedPrefix \o pd[u].ext

C12_Witness ==
  \E u \in UploadIds :
    /\ pd[u].pc = "returned"
    /\ pd[u].name = <<"c",".","e","x","e">>
    /\ pd[u].message = UnsupportedPrefix \o <<".","e","x","e">>
    /\ ~pd[u].success

\* C13: requireAuth calls next() only for a header 'Bearer <token>' with a
\* non-empty token that the provider resolves, without error, to an account;
\* a missing or non-Bearer header, an empty token, a provider error and a
\* token of no account are answered 401, and the handler is not invoked.
C13_BearerOrUnauthorized ==
  LET token == IF Len(req.header) > Len(BearerPrefix)
                 THEN SubSeq(req.header, Len(BearerPrefix) + 1, Len(req.header)) ELSE <<>>
      bearer == Len(req.header) >= Len(BearerPrefix)
                  /\ SubSeq(req.header, 1, Len(BearerPrefix)) = BearerPrefix
      holders == { u \in DOMAIN auth_users : TokenOf(u) = token }
  IN  req.route # "" =>
        /\ req.authStatus = 0 =>
             /\ bearer /\ token # <<>> /\ req.provider = "ok"
             /\ req.user \in holders
        /\ (~bearer \/ token = <<>> \/ req.provider = "error"
              \/ (req.provider = "ok" /\ holders = {})) =>
             req.authStatus = 401 /\ ~req.handler /\ req.status = 401
        /\ req.handler => req.authStatus = 0

C13_Witness ==
  /\ req.route # "" /\ req.authStatus = 0 /\ req.user # ""
  /\ req.header = BearerPrefix \o TokenOf(req.user)

\* C14 (as stated): on every admin-only endpoint a caller whose token claims
\* is_admin is admitted, and any other authenticated caller is admitted
\* exactly when the users table gives the role 'admin' (the lookup answering).
C14_TwoTierEverywhere ==
  (req.route # "" /\ req.authStatus = 0) =>
    /\ req.claimAdmin => req.handler
    /\ (~req.claimAdmin /\ ~req.lookupError) => (req.handler <=> req.tableRole = "admin")

\* C15 (as stated): a request to retitle or delete a session by a caller who
\* is not its owner is refused and changes nothing, unless the caller is an
\* admin: then the ownership check is bypassed and the mutation is made.
C15_AdminBypassesOwnership ==
  /\ (ut.pc = "returned" /\ ut.ownerAtCall \notin {"", ut.userId}) =>
       IF ut.isAdmin THEN ut.written /\ ut.status = 200 ELSE ~ut.written
  /\ (ds.pc = "returned" /\ ds.ownerAtCall \notin {"", ds.userId} /\ ds.status # 500) =>
       IF ds.isAdmin THEN ds.deleted /\ ds.status = 200
       ELSE ~ds.deleted /\ ~ds.deletedMessages

\* A retitle or delete request that has been answered and named a session
\* which existed, owned by another user, when the request arrived.
RetitledOthers == ut.pc = "returned" /\ ut.ownerAtCall \notin {"", ut.userId}
DeletedOthers == ds.pc = "returned" /\ ds.ownerAtCall \notin {"", ds.userId}

\* C17 (as stated): deleting or retitling a session that exists but belongs
\* to another user is answered 403.
C17_OtherUsersSession403 ==
  /\ RetitledOthers => ut.status = 403
  /\ DeletedOthers => ds.status = 403

\* C17 (amended): deleting or retitling a session that exists but belongs to
\* another user is answered 404 and changes nothing: the same answer as for a
\* session id that was never handed out.
C17_OtherUsersSession404 ==
  /\ RetitledOthers => ut.status = 404 /\ ~ut.written
  /\ DeletedOthers => ds.status = 404 /\ ~ds.deleted /\ ~ds.deletedMessages
  /\ (ut.pc = "returned" /\ ut.sessionId > sessionSeq) => ut.status = 404
  /\ (ds.pc = "returned" /\ ds.sessionId > sessionSeq) => ds.status = 404

C17_Witness ==
  /\ DeletedOthers /\ ds.status = 404 /\ OwnerOf(ds.sessionId) = ds.ownerAtCall
  /\ RetitledOthers /\ ut.status = 404 /\ OwnerOf(ut.sessionId) = ut.ownerAtCall

\* A processMessage call that threw, and an upload that an exception ended.
SendFailed(c) == pm[c].pc = "thrown"
UploadFailed(u) == pd[u].pc = "returned" /\ pd[u].failedAt # ""

C18_DeleteMissing404 ==
  /\ (dt.called /\ ~dt.existed /\ dt.status # 500) => dt.status = 404
  /\ (dd.pc = "returned" /\ dd.documentId = 0 /\ dd.failedAt = "") => dd.status = 404

\* C19: the webhook verification request is answered 200 with the challenge
\* exactly when hub.mode is 'subscribe' and hub.verify_token equals the
\* configured verify token; every other request is answered 403.
C19_VerifiedIffSubscribeAndToken ==
  hook.called =>
    /\ (hook.status = 200 /\ hook.body = hook.challenge)
         <=> (hook.mode = "subscribe" /\ hook.token = VerifyToken)
    /\ ~(hook.mode = "subscribe" /\ hook.token = VerifyToken) =>
         hook.status = 403 /\ hook.body = VerificationFailed

C19_Witness ==
  /\ hook.called /\ hook.mode = "subscribe" /\ hook.token = VerifyToken
  /\ hook.challenge = "42" /\ hook.status = 200 /\ hook.body = "42"

\* C20: every webhook event POST is acknowledged with 200, whether or not its
\* processing fails; a payload whose processing failed is only logged: its
\* record never changes again, so it is not processed a second time.
C20_AcknowledgedNeverRetried ==
  /\ [](\A i \in 1..Len(events) : events[i].ack = 200)
  /\ [][\A i \in 1..Len(events) :
          events[i].outcome = "logged" => events'[i] = events[i]]_vars

C20_Witness ==
  \E i \in 1..Len(events) :
    events[i].payload = "malformed" /\ events[i].outcome = "logged" /\ events[i].ack = 200

(***************************************************************************)
(* Frame conditions, referential integrity and interleavings               *)
(***************************************************************************)
\* C21 (as stated): no step replaces a stored role 'admin' of an existing
\* users record by 'user': login, current-user retrieval and the OAuth code
\* exchange leave the stored role as it is.
C21_AdminRoleKept ==
  [][\A id \in DOMAIN users : users[id].role = "admin" => users'[id].role = "admin"]_vars

C23_ChunksReferToMetadata ==
  \A r \in documents : r.documentId \in DOMAIN document_metadata

\* C24 (as stated): when processDocument has written the temporary file and
\* returns, the temporary file is gone, whatever the outcome of extraction,
\* chunking, the metadata insert or the vector-store insert.
C24_TempFileRemoved ==
  \A u \in UploadIds :
    (pd[u].pc = "returned" /\ pd[u].failedAt # "write") => pd[u].name \notin tmp

\* The processMessage calls that have returned their answer, and those of
\* them whose last_message_at update was applied.
Answered == { c \in CallIds : pm[c].pc = "returned" }
Stamped == { c \in Answered : pm[c].stamp # 0 }

\* C25: when two processMessage calls on one session have interleaved and
\* both have returned, each one's (message, response) pair is stored in a row
\* of its own and both were answered 200; every timestamp update that is
\* applied leaves its own value in the session's last_message_at, so that the
\* value kept is the one of the update that ran last, and no answered call's
\* value is later than it.
C25_BothStoredLastWriteWins ==
  /\ []((Answered = CallIds /\ pm[1].sessionId = pm[2].sessionId) =>
          /\ \E i, j \in 1..Len(chat_messages) :
               /\ i # j
               /\ StoredPair(1, chat_messages[i])
               /\ StoredPair(2, chat_messages[j])
          /\ \A c \in CallIds : pm[c].status = 200
          /\ \A c \in Stamped : pm[c].stamp <= chat_sessions[pm[c].sessionId].last_message_at)
  /\ [][\A c \in CallIds :
          (pm[c].pc = "update" /\ pm'[c].pc = "returned" /\ pm'[c].stamp # 0) =>
            chat_sessions'[pm[c].sessionId].last_message_at = pm'[c].stamp]_vars

\* Two calls that overlapped (each began before the other had stored its
\* row) have both returned, and the second one's timestamp is the one kept.
C25_Witness ==
  /\ Answered = CallIds /\ Stamped = CallIds
  /\ pm[1].sessionId = pm[2].sessionId
  /\ pm[1].rowsAtCall = pm[2].rowsAtCall
  /\ Len(chat_messages) = pm[1].rowsAtCall + 2
  /\ pm[2].stamp > pm[1].stamp
  /\ chat_sessions[pm[2].sessionId].last_message_at = pm[2].stamp

\* C26 (as stated): no request changes the session held by the store client
\* that another in-flight request's calls run under: while an admin login is
\* between its sign-in and its later store calls, the client holds the session
\* that admin login signed in with.
C26_InFlightSessionKept ==
  al.pc = "record" => client = al.user

\* The entries the history endpoint is to return for the rows it selected.
StoredEntries(rows) ==
  [i \in 1..Len(rows) |-> [user |-> rows[i].user_message, ai |-> rows[i].ai_response]]

\* C27 (as stated): when the history query succeeds, the endpoint returns one
\* { user, ai } entry per stored message of the session, in creation order, with
\* the stored user_message and ai_response, also for texts with line breaks or
\* with lines starting with 'User: ' or 'AI: '.
C27_HistoryReturnsStoredTexts ==
  gh.status = 200 /\ ~gh.queryError => gh.messages = StoredEntries(gh.stored)

\* C28 (as stated): a password-reset request for an email that is registered
\* (for the admin request: registered as an admin) gets the status and the
\* message that the same request gets for an email that is not.
C28_ResetAnswerHidesRegistration ==
  pr.route # "" /\ pr.email # "" =>
    LET unknown == ResetRequestResult(pr.email, FALSE, pr.listError, pr.answer,
                     IF pr.route = "admin" THEN ErrorVerifyingAdminMsg ELSE ErrorVerifyingMsg,
                     IF pr.route = "admin" THEN AdminResetSentMsg ELSE ResetSentMsg)
    IN  pr.result.statusCode = unknown.statusCode /\ pr.result.msg = unknown.msg

\* C29: a request that carries an admin secret which is empty or differs from
\* the configured one (or, for the reset, a token that resolves to no admin) is
\* answered with a failure; an admin account appears, and a password changes,
\* only in a step of such a request that carried the configured secret and was
\* answered 200, the password being that of the admin the token resolves to.
C29_AdminSecretGuards ==
  /\ [](aa.route # "" /\ (aa.adminSecret = "" \/ aa.adminSecret # AdminSecretKey) => aa.status >= 400)
  /\ [](aa.route = "resetAdminPassword" /\ aa.status = 200 =>
          aa.user \in DOMAIN auth_users /\ auth_users[aa.user].is_admin)
  /\ [][\A id \in DOMAIN auth_users' :
          /\ (id \notin DOMAIN auth_users /\ auth_users'[id].is_admin =>
                /\ aa'.route = "registerAdmin" /\ aa'.user = id
                /\ aa'.adminSecret = AdminSecretKey /\ aa'.status = 200)
          /\ (id \in DOMAIN auth_users /\ auth_users'[id].password # auth_users[id].password =>
                /\ aa'.route = "resetAdminPassword" /\ aa'.user = id
                /\ aa'.adminSecret = AdminSecretKey /\ aa'.status = 200
                /\ auth_users[id].is_admin)]_vars

\* An admin registered with the secret has had the password reset with it.
C29_Witness ==
  /\ aa.route = "resetAdminPassword" /\ aa.status = 200 /\ aa.adminSecret = "s3cret"
  /\ auth_users[aa.user].is_admin /\ auth_users[aa.user].password = "n"

\* C30 (as stated): when the caller's WhatsApp Business Accounts already hold 2
\* or more phone numbers, or hold a number whose display number is '+' followed
\* by the country code and the phone number, no creation request is sent and
\* the registration fails.
C30_NoCreationBeyondLimitOrDuplicate ==
  LET held == fetchPhoneNumbers(rp.businesses)
  IN  (Len(held) >= 2 \/ \E i \in 1..Len(held) : held[i].display_phone_number = rp.display)
        => ~rp.sent /\ rp.status >= 400

====
